---- MODULE Spec2Model ----
(***************************************************************************)
(* liq-core: the immutable value objects of the LIQ Stack (Bar, Quote,     *)
(* OrderRequest, LedgerEntry, Position, Fill, PortfolioState) and the      *)
(* symbol utilities they validate with.                                    *)
(*                                                                         *)
(* One entity is followed at a time: a constructor is called on an input   *)
(* record (args); it either yields an instance (obj) or raises the         *)
(* validation errors (errors); a computed property or method may then be   *)
(* read from the instance (call, params, ret); Discard drops it.           *)
(*                                                                         *)
(* Decimal values are records [c, e] standing for c * 10^e, as in Python's *)
(* decimal module.  Arithmetic is exact and then rounded half-even to the  *)
(* context precision; comparisons are exact.  Python's default precision   *)
(* is 28 significant digits; the model uses Prec digits so that values at  *)
(* the precision limit stay inside TLC's integers.                         *)
(*                                                                         *)
(* Strings are sequences of one-character strings.                         *)
(***************************************************************************)
EXTENDS Integers, Sequences, FiniteSets, TLC

VARIABLES kind, args, obj, errors, call, params, ret

vars == <<kind, args, obj, errors, call, params, ret>>

\* Python's None, wherever a record-valued field is optional.
None == [none |-> TRUE]

----------------------------------------------------------------------------
(* Bounds of the model *)

\* Significant digits of the decimal context (Python's default is 28).
Prec == 7

\* The most positions a caller passes to PortfolioState.
MaxPositions == 2

\* The most results a caller passes to BatchResult.
MaxResults == 3

----------------------------------------------------------------------------
(* decimal.Decimal *)

D(c, e) == [c |-> c, e |-> e]

Abs(n) == IF n < 0 THEN -n ELSE n

Sgn(n) == IF n < 0 THEN -1 ELSE IF n = 0 THEN 0 ELSE 1

Min(a, b) == IF a <= b THEN a ELSE b

RECURSIVE NumDigits(_)
NumDigits(n) == IF n < 10 THEN 1 ELSE 1 + NumDigits(n \div 10)

RECURSIVE Pow10(_)
Pow10(k) == IF k <= 0 THEN 1 ELSE 10 * Pow10(k - 1)

\* Context rounding (ROUND_HALF_EVEN) of an exact result to Prec digits.
Round(d) ==
    LET a == Abs(d.c)
        k == NumDigits(a) - Prec
    IN  IF k <= 0 THEN d
        ELSE LET p    == Pow10(k)
                 q    == a \div p
                 r    == a % p
                 half == 5 * Pow10(k - 1)
                 q2   == IF r > half \/ (r = half /\ q % 2 = 1) THEN q + 1 ELSE q
             IN  IF NumDigits(q2) > Prec
                 THEN D(Sgn(d.c) * (q2 \div 10), d.e + k + 1)
                 ELSE D(Sgn(d.c) * q2, d.e + k)

\* a + b
DAdd(a, b) ==
    LET e == Min(a.e, b.e)
    IN  Round(D(a.c * Pow10(a.e - e) + b.c * Pow10(b.e - e), e))

\* -a
DNeg(a) == Round(D(-a.c, a.e))

\* a - b
DSub(a, b) == DAdd(a, D(-b.c, b.e))

\* a * b
DMul(a, b) == Round(D(a.c * b.c, a.e + b.e))

\* a / 2
DHalf(a) ==
    IF a.c % 2 = 0 THEN Round(D(a.c \div 2, a.e))
    ELSE Round(D(a.c * 5, a.e - 1))

\* Three-way comparison of the exact values: -1, 0 or 1.
DCmp(a, b) ==
    IF Sgn(a.c) # Sgn(b.c) THEN (IF Sgn(a.c) < Sgn(b.c) THEN -1 ELSE 1)
    ELSE IF a.c = 0 THEN 0
    ELSE LET s    == Sgn(a.c)
             adjA == NumDigits(Abs(a.c)) + a.e
             adjB == NumDigits(Abs(b.c)) + b.e
         IN  IF adjA # adjB THEN (IF adjA < adjB THEN -s ELSE s)
             ELSE LET e == Min(a.e, b.e)
                      x == Abs(a.c) * Pow10(a.e - e)
                      y == Abs(b.c) * Pow10(b.e - e)
                  IN  IF x < y THEN -s ELSE IF x > y THEN s ELSE 0

DLt(a, b) == DCmp(a, b) < 0
DLe(a, b) == DCmp(a, b) <= 0
DEq(a, b) == DCmp(a, b) = 0

Zero == D(0, 0)

\* abs(a)
DAbs(a) == Round(D(Abs(a.c), a.e))

\* max(a, b): the first of the two unless the second is greater.
DMax(a, b) == IF DLt(a, b) THEN b ELSE a

----------------------------------------------------------------------------
(* str.strip, str.upper *)

Whitespace == {" ", "\t", "\n"}

LowerAZ == <<"a","b","c","d","e","f","g","h","i","j","k","l","m",
             "n","o","p","q","r","s","t","u","v","w","x","y","z">>
UpperAZ == <<"A","B","C","D","E","F","G","H","I","J","K","L","M",
             "N","O","P","Q","R","S","T","U","V","W","X","Y","Z">>
Digits  == {"0","1","2","3","4","5","6","7","8","9"}

Range(s) == {s[i] : i \in 1..Len(s)}

UpperChar(ch) ==
    IF ch \in Range(LowerAZ)
    THEN UpperAZ[CHOOSE i \in 1..26 : LowerAZ[i] = ch]
    ELSE ch

Upper(s) == [i \in 1..Len(s) |-> UpperChar(s[i])]

RECURSIVE LStrip(_)
LStrip(s) == IF s # <<>> /\ Head(s) \in Whitespace THEN LStrip(Tail(s)) ELSE s

RECURSIVE RStrip(_)
RStrip(s) ==
    IF s # <<>> /\ s[Len(s)] \in Whitespace
    THEN RStrip(SubSeq(s, 1, Len(s) - 1))
    ELSE s

Strip(s) == RStrip(LStrip(s))

----------------------------------------------------------------------------
(* liq.core.symbols *)

AlnumUpper == Range(UpperAZ) \cup Digits

\* The whole of t matches [A-Z0-9][A-Z0-9_-]{0,18}[A-Z0-9] or [A-Z0-9]{2}.
FullMatch(t) ==
    /\ Len(t) >= 2
    /\ Len(t) <= 20
    /\ t[1] \in AlnumUpper
    /\ t[Len(t)] \in AlnumUpper
    /\ \A i \in 2..(Len(t) - 1) : t[i] \in AlnumUpper \cup {"_", "-"}

\* _VALID_SYMBOL_PATTERN.match(s); "$" also matches before a final newline.
VALID_SYMBOL_PATTERN_match(s) ==
    \/ FullMatch(s)
    \/ /\ s # <<>>
       /\ s[Len(s)] = "\n"
       /\ FullMatch(SubSeq(s, 1, Len(s) - 1))

validate_symbol(symbol) ==
    IF symbol = <<>> THEN FALSE
    ELSE IF Len(symbol) < 2 \/ Len(symbol) > 20 THEN FALSE
    ELSE VALID_SYMBOL_PATTERN_match(symbol)

\* _CRYPTO_QUOTES, in the order the loop tries them.
CRYPTO_QUOTES ==
    << <<"U","S","D","T">>, <<"U","S","D","C">>, <<"B","U","S","D">>,
       <<"U","S","D">>, <<"B","T","C">>, <<"E","T","H">>,
       <<"E","U","R">>, <<"G","B","P">> >>

\* old in s
Contains(s, old) == old \in Range(s)

\* s.replace(old, new), old and new single characters
Replace(s, old, new) ==
    [i \in 1..Len(s) |-> IF s[i] = old THEN new ELSE s[i]]

\* s.split(sep)[-1]
SplitLast(s, sep) ==
    IF ~Contains(s, sep) THEN s
    ELSE LET i == CHOOSE i \in 1..Len(s) :
                     /\ s[i] = sep
                     /\ \A j \in (i + 1)..Len(s) : s[j] # sep
         IN  SubSeq(s, i + 1, Len(s))

\* s.split(sep, 1), for s that contains sep
SplitFirst(s, sep) ==
    LET i == CHOOSE i \in 1..Len(s) :
                 /\ s[i] = sep
                 /\ \A j \in 1..(i - 1) : s[j] # sep
    IN  << SubSeq(s, 1, i - 1), SubSeq(s, i + 1, Len(s)) >>

\* s.endswith(suffix)
EndsWith(s, suffix) ==
    /\ Len(s) >= Len(suffix)
    /\ SubSeq(s, Len(s) - Len(suffix) + 1, Len(s)) = suffix

normalize_forex(symbol) ==
    LET s == Replace(Replace(symbol, "/", "_"), "-", "_")
    IN  IF ~Contains(s, "_") /\ Len(s) = 6
        THEN SubSeq(s, 1, 3) \o <<"_">> \o SubSeq(s, 4, Len(s))
        ELSE s

\* A variant that splits even when nothing is left for the base.
RECURSIVE crypto_split_empty_base(_, _)
crypto_split_empty_base(s, i) ==
    IF i > Len(CRYPTO_QUOTES)
    THEN (IF Len(s) >= 6
          THEN SubSeq(s, 1, 3) \o <<"-">> \o SubSeq(s, 4, Len(s))
          ELSE s)
    ELSE LET quote == CRYPTO_QUOTES[i]
             base  == SubSeq(s, 1, Len(s) - Len(quote))
         IN  IF EndsWith(s, quote)
             THEN base \o <<"-">> \o quote
             ELSE crypto_split_empty_base(s, i + 1)

\* The loop over _CRYPTO_QUOTES from entry i on, then the fallback.
RECURSIVE crypto_split(_, _)
crypto_split(s, i) ==
    IF i > Len(CRYPTO_QUOTES)
    THEN (IF Len(s) >= 6
          THEN SubSeq(s, 1, 3) \o <<"-">> \o SubSeq(s, 4, Len(s))
          ELSE s)
    ELSE LET quote == CRYPTO_QUOTES[i]
             base  == SubSeq(s, 1, Len(s) - Len(quote))
         IN  IF EndsWith(s, quote) /\ base # <<>>
             THEN base \o <<"-">> \o quote
             ELSE crypto_split(s, i + 1)

normalize_crypto(symbol) ==
    LET s == Replace(symbol, "_", "-")
    IN  IF Contains(s, "-") THEN s ELSE crypto_split(s, 1)

normalize_symbol(symbol, asset_class) ==
    LET upper == Upper(Strip(symbol))
        s     == IF Contains(upper, ":") THEN SplitLast(upper, ":") ELSE upper
    IN  IF asset_class = "forex" THEN normalize_forex(s)
        ELSE IF asset_class = "crypto" THEN normalize_crypto(s)
        ELSE s

\* A variant that looks for the hyphen before the underscore.
parse_symbol_hyphen_first(canonical) ==
    IF Contains(canonical, "-") THEN SplitFirst(canonical, "-")
    ELSE IF Contains(canonical, "_") THEN SplitFirst(canonical, "_")
    ELSE <<canonical, <<>> >>

\* (base, quote)
parse_symbol(canonical) ==
    IF Contains(canonical, "_") THEN SplitFirst(canonical, "_")
    ELSE IF Contains(canonical, "-") THEN SplitFirst(canonical, "-")
    ELSE <<canonical, <<>> >>

----------------------------------------------------------------------------
(* Inputs *)

\* datetime values: tzinfo set or not, utcoffset() defined or None, minutes.
Naive     == [tzinfo |-> FALSE, hasoff |-> FALSE, off |-> 0]
NoOffset  == [tzinfo |-> TRUE,  hasoff |-> FALSE, off |-> 0]
UtcTime   == [tzinfo |-> TRUE,  hasoff |-> TRUE,  off |-> 0]
PlusOne   == [tzinfo |-> TRUE,  hasoff |-> TRUE,  off |-> 60]

Timestamps == {Naive, NoOffset, UtcTime, PlusOne}

\* Raw symbols as a caller may supply them.
RawSymbols ==
    { <<"A","B">>,
      <<" ","a","_","b","\n">>,
      <<"A">>,
      <<"a","/","b">>,
      <<"_","A","B">> }

\* asset_class: the values of AssetClass.
AssetClass == {"forex", "crypto", "equity", "future", "option"}

\* n copies of one character.
Repeat(ch, n) == [i \in 1..n |-> ch]

\* Raw symbols as providers write them, for normalize_symbol.
ProviderSymbols ==
    { <<"B","I","N","A","N","C","E",":","b","t","c","u","s","d","t">>,
      <<"a",":"," ","b">>,
      <<"A","/","B">>,
      <<" ","a","_","b","\n">>,
      <<"E","U","R","U","S","D">>,
      <<"e","u","r","-","u","s","d">>,
      <<"B","U","S","D">>,
      <<"U","S","D","T">>,
      <<"A","B","C","D","E","F","G">>,
      <<"A","B">>,
      <<"x">>,
      <<"b","t","c","_","u","s","d">>,
      Repeat("A", 19) }

\* Strings handed to validate_symbol and parse_symbol.
CandidateSymbols ==
    { <<"A","B">>,
      <<"A","B","\n">>,
      <<"A">>,
      <<>>,
      <<"A","_","B">>,
      <<"A","-","B","_","C">>,
      <<"A","_","B","-","C">>,
      <<"_","A","B">>,
      <<"A","B","-">>,
      <<"a","b">>,
      <<"A","/","B">>,
      <<"A",":","B">>,
      <<"A"," ","B">>,
      <<"A","A","P","L">>,
      <<"E","U","R","_","U","S","D">>,
      Repeat("A", 20),
      Repeat("A", 21) }

\* The largest coefficient the context holds without rounding.
MaxCoeff == Pow10(Prec) - 1

BarPrices == {D(0, 0), D(1, 0), D(15, -1), D(2, 0), D(MaxCoeff, 0)}

\* The previous bar's midrange, high or low, when there is a previous bar.
PrevPrices == {None, D(1, 0), D(15, -1), D(4, 0)}

BarVolumes == {D(-1, 0), D(0, 0), D(5, 0)}

QuotePrices == {D(0, 0), D(1, 0), D(15, -1), D(2, 0), D(MaxCoeff, 0)}

QuoteSizes == {D(-1, 0), D(0, 0), D(5, 0)}

OrderSide == {"buy", "sell"}

OrderType == {"market", "limit", "stop", "stop_limit"}

OrderQuantities == {D(0, 0), D(3, 0)}

OptionalPrices == {None, D(0, 0), D(15, -1)}

Confidences == {None, [tenths |-> 5], [tenths |-> 11]}

PositionQuantities == {D(-2, 0), D(0, 0), D(2, 0), D(3, 0)}

AveragePrices == {D(-1, 0), D(0, 0), D(15, -1), D(2, 0)}

CurrentPrices == {None, D(-1, 0), D(0, 0), D(2, 0)}

AvgEntryPrices == {None, D(-5, 0), D(15, -1), D(3, 0)}

CashValues == {D(89000, 0), D(-5, 0)}

UnsettledValues == {D(0, 0), D(7, 0)}

PortfolioTimestamps == {Naive, UtcTime, PlusOne}

PriceKeys == { <<"A","B">>, <<"A","_","B">>, <<"Z","Z">> }

PnlPrices == {D(15, -1), D(2, 0)}

EntryTypes == {"fill", "cash", "corporate_action", "margin_call", "trade"}

FillQuantities == {D(0, 0), D(3, 0), D(10000, 0)}

FillPrices == {D(0, 0), D(15, -1), D(11000, -4), D(2, 0)}

FillCommissions == {D(-1, 0), D(0, 0), D(50, -2)}

ActionTypes == {"split", "bonus"}

OptionalRatios == {None, D(2, 0)}

CashAmounts == {D(100, 0), D(-5, 0)}

Currencies == {"USD", "XXX"}

MovementTypes == {"deposit", "refund"}

\* An int where None is allowed too.
SomeInt(n) == [int |-> n]

RateLimitsPerMinute == {0, 60}

Priorities == {0, 1}

RateLimitsPerDay == {None, SomeInt(0), SomeInt(1000)}

HoldingPeriods == {0, 5}

\* An error message, when one is given.
Message(text) == [message |-> text]

\* total, succeeded and failed are plain ints: nothing restricts their sign.
BatchCounts == -1..MaxResults

OptionalCounts == {None, SomeInt(0), SomeInt(5000)}

OptionalRows == {None, SomeInt(50000)}

OptionalErrors == {None, Message("Not found")}

----------------------------------------------------------------------------
(* Validation errors are collected per field, in field order. *)

Ok == ""

Errs(msgs) == SelectSeq(msgs, LAMBDA m : m # Ok)

\* A variant that asks for a tzinfo only, not for the offset it gives.
validate_timestamp_timezone_tzinfo_only(v) ==
    IF ~v.tzinfo
    THEN "timestamp must be timezone-aware (UTC expected)"
    ELSE Ok

validate_timestamp_timezone(v) ==
    IF ~v.tzinfo \/ ~v.hasoff
    THEN "timestamp must be timezone-aware (UTC expected)"
    ELSE Ok

validate_symbol_format(v) ==
    IF ~validate_symbol(Upper(Strip(v)))
    THEN "symbol must be canonical (uppercase with _ or -)"
    ELSE Ok

----------------------------------------------------------------------------
(* liq.core.bar *)

\* A variant that stops at awareness, as the other entities do.
Bar_validate_timestamp_timezone_any_offset(v) ==
    IF ~v.tzinfo \/ ~v.hasoff
    THEN "timestamp must be timezone-aware (UTC expected)"
    ELSE Ok

Bar_validate_timestamp_timezone(v) ==
    IF ~v.tzinfo \/ ~v.hasoff
    THEN "timestamp must be timezone-aware (UTC expected)"
    ELSE IF v.off # 0 THEN "timestamp must be UTC"
    ELSE Ok

Bar_validate_price_positive(v) ==
    IF DLe(v, Zero) THEN "price fields must be > 0" ELSE Ok

Bar_validate_volume_non_negative(v) ==
    IF DLt(v, Zero) THEN "volume must be >= 0" ELSE Ok

\* A variant that forgets the last check (low <= close).
Bar_validate_ohlc_constraints_no_close(b) ==
    IF DLt(b.high, b.low) THEN "high must be >= low"
    ELSE IF DLt(b.high, b.open) THEN "high must be >= open"
    ELSE IF DLt(b.high, b.close) THEN "high must be >= close"
    ELSE IF DLt(b.open, b.low) THEN "low must be <= open"
    ELSE Ok

Bar_validate_ohlc_constraints(b) ==
    IF DLt(b.high, b.low) THEN "high must be >= low"
    ELSE IF DLt(b.high, b.open) THEN "high must be >= open"
    ELSE IF DLt(b.high, b.close) THEN "high must be >= close"
    ELSE IF DLt(b.open, b.low) THEN "low must be <= open"
    ELSE IF DLt(b.close, b.low) THEN "low must be <= close"
    ELSE Ok

\* Bar(**a): the errors raised, <<>> when construction succeeds.
Bar_errors(a) ==
    LET fields == Errs(<<Bar_validate_timestamp_timezone(a.timestamp),
                         validate_symbol_format(a.symbol),
                         Bar_validate_price_positive(a.open),
                         Bar_validate_price_positive(a.high),
                         Bar_validate_price_positive(a.low),
                         Bar_validate_price_positive(a.close),
                         Bar_validate_volume_non_negative(a.volume)>>)
    IN  IF fields # <<>> THEN fields
        ELSE Errs(<<Bar_validate_ohlc_constraints(a)>>)

\* The instance a successful construction yields.
Bar_instance(a) == [a EXCEPT !.symbol = Upper(Strip(a.symbol))]

Construct(k, a, errs, inst) ==
    /\ kind' = k
    /\ args' = a
    /\ errors' = errs
    /\ obj' = IF errs = <<>> THEN inst ELSE None
    /\ UNCHANGED <<call, params, ret>>

NewBar ==
    /\ kind = "none"
    /\ \E ts \in Timestamps, sym \in RawSymbols,
          o \in BarPrices, h \in BarPrices, l \in BarPrices, c \in BarPrices,
          v \in BarVolumes :
           LET a == [timestamp |-> ts, symbol |-> sym, open |-> o, high |-> h,
                     low |-> l, close |-> c, volume |-> v]
           IN  Construct("Bar", a, Bar_errors(a), Bar_instance(a))

\* A computed property or method of the instance is read.
Read(k, name, value) ==
    /\ kind = k
    /\ obj # None
    /\ call = "none"
    /\ call' = name
    /\ params' = None
    /\ ret' = value
    /\ UNCHANGED <<kind, args, obj, errors>>

\* (self.high + self.low) / 2
Bar_midrange(b) == DHalf(DAdd(b.high, b.low))

\* self.high - self.low
Bar_range(b) == DSub(b.high, b.low)

\* A variant that measures the gap from the bar's high.
Bar_true_range_midrange_from_high(b, prev_midrange) ==
    IF prev_midrange = None THEN Bar_range(b)
    ELSE DMax(Bar_range(b), DAbs(DSub(b.high, prev_midrange)))

Bar_true_range_midrange(b, prev_midrange) ==
    LET current_mid == Bar_midrange(b)
    IN  IF prev_midrange = None THEN Bar_range(b)
        ELSE DMax(Bar_range(b), DAbs(DSub(current_mid, prev_midrange)))

\* max(candidates), candidates being the list built so far.
RECURSIVE MaxOf(_)
MaxOf(candidates) ==
    IF Len(candidates) = 1 THEN candidates[1]
    ELSE DMax(MaxOf(SubSeq(candidates, 1, Len(candidates) - 1)),
              candidates[Len(candidates)])

Bar_true_range_hl(b, prev_high, prev_low) ==
    LET c1 == <<Bar_range(b)>>
        c2 == IF prev_high # None
              THEN Append(c1, DAbs(DSub(b.high, prev_high))) ELSE c1
        c3 == IF prev_low # None
              THEN Append(c2, DAbs(DSub(b.low, prev_low))) ELSE c2
    IN  MaxOf(c3)

BarMidrange == Read("Bar", "midrange", Bar_midrange(obj))

BarRange == Read("Bar", "range", Bar_range(obj))

BarTrueRangeMidrange ==
    /\ kind = "Bar"
    /\ obj # None
    /\ call = "none"
    /\ \E prev_midrange \in PrevPrices :
          /\ call' = "true_range_midrange"
          /\ params' = [prev_midrange |-> prev_midrange]
          /\ ret' = Bar_true_range_midrange(obj, prev_midrange)
    /\ UNCHANGED <<kind, args, obj, errors>>

BarTrueRangeHl ==
    /\ kind = "Bar"
    /\ obj # None
    /\ call = "none"
    /\ \E prev_high \in PrevPrices, prev_low \in PrevPrices :
          /\ call' = "true_range_hl"
          /\ params' = [prev_high |-> prev_high, prev_low |-> prev_low]
          /\ ret' = Bar_true_range_hl(obj, prev_high, prev_low)
    /\ UNCHANGED <<kind, args, obj, errors>>

----------------------------------------------------------------------------
(* liq.core.quote *)

Quote_validate_price_positive(v) ==
    IF DLe(v, Zero) THEN "bid/ask must be > 0" ELSE Ok

Quote_validate_size_non_negative(v) ==
    IF DLt(v, Zero) THEN "size must be >= 0" ELSE Ok

Quote_validate_spread(q) ==
    IF DLt(q.ask, q.bid) THEN "ask must be >= bid" ELSE Ok

Quote_errors(a) ==
    LET fields == Errs(<<validate_symbol_format(a.symbol),
                         validate_timestamp_timezone(a.timestamp),
                         Quote_validate_price_positive(a.bid),
                         Quote_validate_price_positive(a.ask),
                         Quote_validate_size_non_negative(a.bid_size),
                         Quote_validate_size_non_negative(a.ask_size)>>)
    IN  IF fields # <<>> THEN fields
        ELSE Errs(<<Quote_validate_spread(a)>>)

Quote_instance(a) == [a EXCEPT !.symbol = Upper(Strip(a.symbol))]

\* (bid + ask) / 2
Quote_mid(q) == DHalf(DAdd(q.bid, q.ask))

\* ask - bid
Quote_spread(q) == DSub(q.ask, q.bid)

NewQuote ==
    /\ kind = "none"
    /\ \E sym \in RawSymbols, ts \in Timestamps,
          b \in QuotePrices, a \in QuotePrices,
          bs \in QuoteSizes, as \in QuoteSizes :
           LET q == [symbol |-> sym, timestamp |-> ts, bid |-> b, ask |-> a,
                     bid_size |-> bs, ask_size |-> as]
           IN  Construct("Quote", q, Quote_errors(q), Quote_instance(q))

QuoteMid == Read("Quote", "mid", Quote_mid(obj))

QuoteSpread == Read("Quote", "spread", Quote_spread(obj))

----------------------------------------------------------------------------
(* liq.core.order *)

Order_validate_quantity_positive(v) ==
    IF DLe(v, Zero) THEN "quantity must be > 0" ELSE Ok

Order_validate_limit_price_positive(v) ==
    IF v # None /\ DLe(v, Zero) THEN "limit_price must be > 0" ELSE Ok

Order_validate_stop_price_positive(v) ==
    IF v # None /\ DLe(v, Zero) THEN "stop_price must be > 0" ELSE Ok

\* confidence is a float, held here in tenths.
Order_validate_confidence_range(v) ==
    IF v = None THEN Ok
    ELSE IF ~(0 <= v.tenths /\ v.tenths <= 10)
    THEN "confidence must be between 0.0 and 1.0"
    ELSE Ok

\* A variant whose STOP_LIMIT branch checks stop_price before limit_price.
Order_validate_price_requirements_stop_first(o) ==
    IF o.order_type = "limit"
    THEN (IF o.limit_price = None
          THEN "limit_price is required for LIMIT orders" ELSE Ok)
    ELSE IF o.order_type = "stop"
    THEN (IF o.stop_price = None
          THEN "stop_price is required for STOP orders" ELSE Ok)
    ELSE IF o.order_type = "stop_limit"
    THEN (IF o.stop_price = None
          THEN "stop_price is required for STOP_LIMIT orders"
          ELSE IF o.limit_price = None
          THEN "limit_price is required for STOP_LIMIT orders"
          ELSE Ok)
    ELSE Ok

Order_validate_price_requirements(o) ==
    IF o.order_type = "limit"
    THEN (IF o.limit_price = None
          THEN "limit_price is required for LIMIT orders" ELSE Ok)
    ELSE IF o.order_type = "stop"
    THEN (IF o.stop_price = None
          THEN "stop_price is required for STOP orders" ELSE Ok)
    ELSE IF o.order_type = "stop_limit"
    THEN (IF o.limit_price = None
          THEN "limit_price is required for STOP_LIMIT orders"
          ELSE IF o.stop_price = None
          THEN "stop_price is required for STOP_LIMIT orders"
          ELSE Ok)
    ELSE Ok

Order_errors(a) ==
    LET fields == Errs(<<validate_symbol_format(a.symbol),
                         Order_validate_quantity_positive(a.quantity),
                         Order_validate_limit_price_positive(a.limit_price),
                         Order_validate_stop_price_positive(a.stop_price),
                         validate_timestamp_timezone(a.timestamp),
                         Order_validate_confidence_range(a.confidence)>>)
    IN  IF fields # <<>> THEN fields
        ELSE Errs(<<Order_validate_price_requirements(a)>>)

Order_instance(a) == [a EXCEPT !.symbol = Upper(Strip(a.symbol))]

NewOrderRequest ==
    /\ kind = "none"
    /\ \E sym \in RawSymbols, sd \in OrderSide, ot \in OrderType,
          q \in OrderQuantities, lp \in OptionalPrices, sp \in OptionalPrices,
          ts \in Timestamps, cf \in Confidences :
           LET a == [symbol |-> sym, side |-> sd, order_type |-> ot,
                     quantity |-> q, limit_price |-> lp, stop_price |-> sp,
                     timestamp |-> ts, confidence |-> cf]
           IN  Construct("OrderRequest", a, Order_errors(a), Order_instance(a))

----------------------------------------------------------------------------
(* liq.core.fill *)

Fill_validate_quantity_positive(v) ==
    IF DLe(v, Zero) THEN "quantity must be > 0" ELSE Ok

Fill_validate_price_positive(v) ==
    IF DLe(v, Zero) THEN "price must be > 0" ELSE Ok

Fill_validate_commission_non_negative(v) ==
    IF DLt(v, Zero) THEN "commission must be >= 0" ELSE Ok

Fill_errors(a) ==
    Errs(<<validate_symbol_format(a.symbol),
           Fill_validate_quantity_positive(a.quantity),
           Fill_validate_price_positive(a.price),
           Fill_validate_commission_non_negative(a.commission),
           validate_timestamp_timezone(a.timestamp)>>)

Fill_instance(a) == [a EXCEPT !.symbol = Upper(Strip(a.symbol))]

\* quantity * price
Fill_notional_value(f) == DMul(f.quantity, f.price)

\* A variant that subtracts the commission from a sale's proceeds.
Fill_total_cost_sell_rebate(f) ==
    IF f.side = "buy"
    THEN DAdd(Fill_notional_value(f), f.commission)
    ELSE DSub(DNeg(Fill_notional_value(f)), f.commission)

Fill_total_cost(f) ==
    IF f.side = "buy"
    THEN DAdd(Fill_notional_value(f), f.commission)
    ELSE DAdd(DNeg(Fill_notional_value(f)), f.commission)

NewFill ==
    /\ kind = "none"
    /\ \E sym \in RawSymbols, sd \in OrderSide, q \in FillQuantities,
          p \in FillPrices, cm \in FillCommissions, ts \in Timestamps :
           LET a == [symbol |-> sym, side |-> sd, quantity |-> q, price |-> p,
                     commission |-> cm, timestamp |-> ts]
           IN  Construct("Fill", a, Fill_errors(a), Fill_instance(a))

FillNotionalValue == Read("Fill", "notional_value", Fill_notional_value(obj))

FillTotalCost == Read("Fill", "total_cost", Fill_total_cost(obj))

----------------------------------------------------------------------------
(* liq.core.position *)

Position_validate_average_price_non_negative(v) ==
    IF DLt(v, Zero) THEN "average_price must be >= 0" ELSE Ok

Position_validate_current_price_non_negative(v) ==
    IF v # None /\ DLt(v, Zero) THEN "current_price must be >= 0" ELSE Ok

\* Returns v as it is, None or not: nothing is checked.
Position_sync_avg_entry_price(v) == Ok

Position_errors(a) ==
    Errs(<<validate_symbol_format(a.symbol),
           Position_validate_average_price_non_negative(a.average_price),
           validate_timestamp_timezone(a.timestamp),
           Position_validate_current_price_non_negative(a.current_price),
           Position_sync_avg_entry_price(a.avg_entry_price)>>)

Position_instance(a) == [a EXCEPT !.symbol = Upper(Strip(a.symbol))]

\* What Position.model_validate does to the validated instance before
\* returning it (object.__setattr__ on the frozen model).
Position_model_validate_sync(o) ==
    IF o.avg_entry_price # None /\ ~DEq(o.average_price, o.avg_entry_price)
    THEN [o EXCEPT !.average_price = o.avg_entry_price]
    ELSE IF o.avg_entry_price = None
    THEN [o EXCEPT !.avg_entry_price = o.average_price]
    ELSE o

\* A variant that values a position by the size of its quantity.
Position_market_value_abs(p) ==
    LET mark_price == IF p.current_price # None THEN p.current_price
                      ELSE p.average_price
    IN  DMul(D(Abs(p.quantity.c), p.quantity.e), mark_price)

Position_market_value(p) ==
    LET mark_price == IF p.current_price # None THEN p.current_price
                      ELSE p.average_price
    IN  DMul(p.quantity, mark_price)

\* A variant that takes the size of the quantity.
Position_unrealized_pnl_abs(p, current_price) ==
    DMul(DSub(current_price, p.average_price),
         D(Abs(p.quantity.c), p.quantity.e))

Position_unrealized_pnl(p, current_price) ==
    DMul(DSub(current_price, p.average_price), p.quantity)

PositionArgs ==
    [symbol : RawSymbols, quantity : PositionQuantities,
     average_price : AveragePrices, realized_pnl : {Zero},
     timestamp : Timestamps, current_price : CurrentPrices,
     avg_entry_price : AvgEntryPrices]

\* Position(**a)
NewPosition ==
    /\ kind = "none"
    /\ \E a \in PositionArgs :
           Construct("Position", [via |-> "init", data |-> a],
                     Position_errors(a), Position_instance(a))

\* Position.model_validate(a)
PositionModelValidate ==
    /\ kind = "none"
    /\ \E a \in PositionArgs :
           Construct("Position", [via |-> "model_validate", data |-> a],
                     Position_errors(a),
                     Position_model_validate_sync(Position_instance(a)))

\* Position.model_validate_json(json of a): not overridden, so no sync.
PositionModelValidateJson ==
    /\ kind = "none"
    /\ \E a \in PositionArgs :
           Construct("Position", [via |-> "model_validate_json", data |-> a],
                     Position_errors(a), Position_instance(a))

\* position.unrealized_pnl(current_price)
PositionUnrealizedPnl ==
    /\ kind = "Position"
    /\ obj # None
    /\ call = "none"
    /\ \E current_price \in PnlPrices :
          /\ call' = "unrealized_pnl"
          /\ params' = [current_price |-> current_price]
          /\ ret' = Position_unrealized_pnl(obj, current_price)
    /\ UNCHANGED <<kind, args, obj, errors>>

PositionMarketValue ==
    Read("Position", "market_value", Position_market_value(obj))

\* Position.model_validate(p) for the instance p itself: with pydantic's
\* default revalidate_instances = 'never' the call validates nothing and gets
\* p back, and the override then writes to it.
PositionModelValidateInstance ==
    /\ kind = "Position"
    /\ obj # None
    /\ call = "none"
    /\ obj' = Position_model_validate_sync(obj)
    /\ call' = "model_validate"
    /\ params' = None
    /\ ret' = obj'
    /\ UNCHANGED <<kind, args, errors>>

----------------------------------------------------------------------------
(* liq.core.portfolio *)

\* A dict is a sequence of [key, pos] items in insertion order.
Keys(items) == {items[i].key : i \in 1..Len(items)}

\* d[k] = p
DictSet(items, k, p) ==
    IF k \in Keys(items)
    THEN [i \in 1..Len(items) |->
            IF items[i].key = k THEN [key |-> k, pos |-> p] ELSE items[i]]
    ELSE Append(items, [key |-> k, pos |-> p])

\* A variant that trims a key without upper-casing it.
Portfolio_normalized_symbol_no_upper(symbol) == Strip(symbol)

\* normalized_symbol = symbol.strip().upper()
Portfolio_normalized_symbol(symbol) == Upper(Strip(symbol))

\* The loop of normalize_position_keys: the normalized dict, or the error
\* raised at the first key that is not canonical.
RECURSIVE normalize_items(_, _)
normalize_items(items, normalized) ==
    IF items = <<>> THEN [error |-> Ok, dict |-> normalized]
    ELSE LET normalized_symbol == Portfolio_normalized_symbol(Head(items).key)
         IN  IF ~validate_symbol(normalized_symbol)
             THEN [error |-> "position symbol keys must be canonical",
                   dict |-> <<>>]
             ELSE normalize_items(Tail(items),
                      DictSet(normalized, normalized_symbol, Head(items).pos))

Portfolio_normalize_position_keys(v) ==
    IF ~v.isdict
    THEN [error |-> "positions must be a mapping of symbol to Position",
          dict |-> <<>>]
    ELSE normalize_items(v.items, <<>>)

\* The TypeError for a non-dict is not a validation error: it leaves the
\* constructor at once, before any other field is looked at.
Portfolio_errors(a) ==
    IF ~a.positions.isdict
    THEN <<Portfolio_normalize_position_keys(a.positions).error>>
    ELSE Errs(<<Portfolio_normalize_position_keys(a.positions).error,
                validate_timestamp_timezone(a.timestamp)>>)

Portfolio_instance(a) ==
    [a EXCEPT !.positions = Portfolio_normalize_position_keys(a.positions).dict]

\* sum((pos.market_value for pos in positions.values()), Decimal("0"))
RECURSIVE SumMarketValues(_, _)
SumMarketValues(items, total) ==
    IF items = <<>> THEN total
    ELSE SumMarketValues(Tail(items),
                         DAdd(total, Position_market_value(Head(items).pos)))

Portfolio_total_market_value(pf) == SumMarketValues(pf.positions, Zero)

\* A variant that leaves unsettled cash out of the equity.
Portfolio_equity_settled_only(pf) ==
    DAdd(pf.cash, Portfolio_total_market_value(pf))

Portfolio_equity(pf) ==
    DAdd(DAdd(pf.cash, pf.unsettled_cash), Portfolio_total_market_value(pf))

KeyError == [raised |-> "KeyError"]

\* The loop of total_unrealized_pnl over positions.items().
RECURSIVE SumUnrealizedPnl(_, _, _)
SumUnrealizedPnl(items, current_prices, total) ==
    IF items = <<>> THEN total
    ELSE IF Head(items).key \notin DOMAIN current_prices THEN KeyError
    ELSE SumUnrealizedPnl(Tail(items), current_prices,
             DAdd(total, Position_unrealized_pnl(Head(items).pos,
                                                 current_prices[Head(items).key])))

\* A variant that skips the positions it has no price for.
RECURSIVE SumUnrealizedPnlSkipping(_, _, _)
SumUnrealizedPnlSkipping(items, current_prices, total) ==
    IF items = <<>> THEN total
    ELSE IF Head(items).key \notin DOMAIN current_prices
    THEN SumUnrealizedPnlSkipping(Tail(items), current_prices, total)
    ELSE SumUnrealizedPnlSkipping(Tail(items), current_prices,
             DAdd(total, Position_unrealized_pnl(Head(items).pos,
                                                 current_prices[Head(items).key])))

Portfolio_total_unrealized_pnl_skipping(pf, current_prices) ==
    SumUnrealizedPnlSkipping(pf.positions, current_prices, Zero)

Portfolio_total_unrealized_pnl(pf, current_prices) ==
    SumUnrealizedPnl(pf.positions, current_prices, Zero)

\* Positions a caller holds, each built by Position(...).
HeldPositions ==
    { Position_instance([symbol |-> sym, quantity |-> q, average_price |-> ap,
                         realized_pnl |-> Zero, timestamp |-> UtcTime,
                         current_price |-> cp, avg_entry_price |-> None]) :
        <<sym, q, ap, cp>> \in
          { << <<"A","B">>,     D(10000, 0), D(110, -2), None >>,
            << <<"A","_","B">>, D(-2, 0),    D(2, 0),    D(15, -1) >>,
            << <<"A","B">>,     D(0, 0),     D(2, 0),    None >>,
            << <<"A","_","B">>, D(3, 0),     D(15, -1),  D(2, 0) >> } }

\* The keys a caller may give: "ab" and "AB" differ only by case.
PositionKeys == RawSymbols \cup { <<"a","b">> }

\* dicts of at most MaxPositions items from raw keys to held positions.
PositionDicts ==
    { items \in UNION {[1..n -> [key : PositionKeys, pos : HeldPositions]] :
                          n \in 0..MaxPositions} :
        \A i, j \in 1..Len(items) : i # j => items[i].key # items[j].key }

PositionsInputs ==
    {[isdict |-> TRUE, items |-> d] : d \in PositionDicts}
        \cup {[isdict |-> FALSE, items |-> <<>>]}

NewPortfolioState ==
    /\ kind = "none"
    /\ \E c \in CashValues, u \in UnsettledValues, ps \in PositionsInputs,
          ts \in PortfolioTimestamps :
           LET a == [cash |-> c, unsettled_cash |-> u, positions |-> ps,
                     timestamp |-> ts]
           IN  Construct("PortfolioState", a, Portfolio_errors(a),
                         Portfolio_instance(a))

\* len(self.positions)
Portfolio_position_count(pf) == Len(pf.positions)

\* list(self.positions.keys())
Portfolio_symbols(pf) == [i \in 1..Len(pf.positions) |-> pf.positions[i].key]

PortfolioPositionCount ==
    Read("PortfolioState", "position_count", Portfolio_position_count(obj))

PortfolioSymbols ==
    Read("PortfolioState", "symbols", Portfolio_symbols(obj))

PortfolioTotalMarketValue ==
    Read("PortfolioState", "total_market_value",
         Portfolio_total_market_value(obj))

PortfolioEquity == Read("PortfolioState", "equity", Portfolio_equity(obj))

\* total_unrealized_pnl(current_prices): returns the total or raises
\* KeyError.
PortfolioTotalUnrealizedPnl ==
    /\ kind = "PortfolioState"
    /\ obj # None
    /\ call = "none"
    /\ \E keys \in SUBSET PriceKeys :
          \E current_prices \in [keys -> PnlPrices] :
             /\ call' = "total_unrealized_pnl"
             /\ params' = current_prices
             /\ ret' = Portfolio_total_unrealized_pnl(obj, current_prices)
    /\ UNCHANGED <<kind, args, obj, errors>>

----------------------------------------------------------------------------
(* liq.core.ledger *)

\* A keyword argument the caller left out (the field takes its default).
Omitted == [omitted |-> TRUE]

Supplied(v) == v # Omitted

Ledger_entry_type_pattern(v) ==
    IF v \notin {"fill", "cash", "corporate_action", "margin_call"}
    THEN "String should match pattern '^(fill|cash|corporate_action|margin_call)$'"
    ELSE Ok

\* The field validator of fill, cash_movement and corporate_action; it runs
\* for a supplied value only, and info.data holds entry_type only once that
\* field has passed.
Ledger_validate_conditionals(v, field_name, a) ==
    IF ~Supplied(v) \/ Ledger_entry_type_pattern(a.entry_type) # Ok THEN Ok
    ELSE IF a.entry_type = "fill" /\ field_name = "fill" /\ v = None
    THEN "fill is required when entry_type is fill"
    ELSE IF a.entry_type = "cash" /\ field_name = "cash_movement" /\ v = None
    THEN "cash_movement is required when entry_type is cash"
    ELSE IF /\ a.entry_type = "corporate_action"
            /\ field_name = "corporate_action"
            /\ v = None
    THEN "corporate_action is required when entry_type is corporate_action"
    ELSE Ok

Ledger_validate_required_payloads(e) ==
    IF e.entry_type = "fill" /\ e.fill = None
    THEN "fill is required when entry_type is fill"
    ELSE IF e.entry_type = "cash" /\ e.cash_movement = None
    THEN "cash_movement is required when entry_type is cash"
    ELSE IF e.entry_type = "corporate_action" /\ e.corporate_action = None
    THEN "corporate_action is required when entry_type is corporate_action"
    ELSE Ok

Default(v) == IF Supplied(v) THEN v ELSE None

Ledger_instance(a) ==
    [a EXCEPT !.fill = Default(a.fill),
              !.cash_movement = Default(a.cash_movement),
              !.corporate_action = Default(a.corporate_action),
              !.portfolio_state_after = Default(a.portfolio_state_after)]

Ledger_errors(a) ==
    LET fields == Errs(<<validate_timestamp_timezone(a.timestamp),
                         Ledger_entry_type_pattern(a.entry_type),
                         Ledger_validate_conditionals(a.fill, "fill", a),
                         Ledger_validate_conditionals(a.cash_movement,
                                                      "cash_movement", a),
                         Ledger_validate_conditionals(a.corporate_action,
                                                      "corporate_action", a)>>)
    IN  IF fields # <<>> THEN fields
        ELSE Errs(<<Ledger_validate_required_payloads(Ledger_instance(a))>>)

\* Instances a caller holds, to put in a ledger entry.
SampleFill ==
    Fill_instance([symbol |-> <<"A","B">>, side |-> "buy", quantity |-> D(3, 0),
                   price |-> D(15, -1), commission |-> D(50, -2),
                   timestamp |-> UtcTime])

SampleCashMovement ==
    [timestamp |-> UtcTime, amount |-> D(100, 0), currency |-> "USD",
     movement_type |-> "deposit"]

SampleCorporateAction ==
    [symbol |-> <<"A","B">>, ex_date |-> UtcTime, action_type |-> "split",
     ratio |-> D(2, 0)]

SamplePortfolioState ==
    Portfolio_instance([cash |-> D(89000, 0), unsettled_cash |-> Zero,
                        positions |-> [isdict |-> TRUE, items |-> <<>>],
                        timestamp |-> UtcTime])

NewLedgerEntry ==
    /\ kind = "none"
    /\ \E ts \in Timestamps, et \in EntryTypes,
          f \in {Omitted, None, SampleFill},
          cm \in {Omitted, None, SampleCashMovement},
          ca \in {Omitted, None, SampleCorporateAction},
          psa \in {Omitted, None, SamplePortfolioState} :
           LET a == [timestamp |-> ts, entry_type |-> et, fill |-> f,
                     cash_movement |-> cm, corporate_action |-> ca,
                     portfolio_state_after |-> psa]
           IN  Construct("LedgerEntry", a, Ledger_errors(a), Ledger_instance(a))

----------------------------------------------------------------------------
(* liq.core.corporate_action *)

CorporateAction_validate_timestamp_timezone(v) ==
    IF ~v.tzinfo \/ ~v.hasoff
    THEN "ex_date must be timezone-aware (UTC expected)"
    ELSE Ok

CorporateAction_action_type_pattern(v) ==
    IF v \notin {"split", "dividend", "spinoff", "merger"}
    THEN "String should match pattern '^(split|dividend|spinoff|merger)$'"
    ELSE Ok

\* symbol is a plain str field: no validator of its own.
CorporateAction_errors(a) ==
    Errs(<<CorporateAction_validate_timestamp_timezone(a.ex_date),
           CorporateAction_action_type_pattern(a.action_type)>>)

\* str_strip_whitespace trims the symbol; nothing upper-cases it.
CorporateAction_instance(a) == [a EXCEPT !.symbol = Strip(a.symbol)]

NewCorporateAction ==
    /\ kind = "none"
    /\ \E sym \in RawSymbols, ts \in Timestamps, at \in ActionTypes,
          r \in OptionalRatios :
           LET a == [symbol |-> sym, ex_date |-> ts, action_type |-> at,
                     ratio |-> r, amount |-> None]
           IN  Construct("CorporateAction", a, CorporateAction_errors(a),
                         CorporateAction_instance(a))

----------------------------------------------------------------------------
(* liq.core.cash_movement *)

CashMovement_validate_timestamp_timezone(v) ==
    IF ~v.tzinfo \/ ~v.hasoff
    THEN "timestamp must be timezone-aware (UTC expected)"
    ELSE Ok

CashMovement_currency_enum(v) ==
    IF v \notin {"USD", "EUR", "GBP", "JPY", "BTC", "ETH", "USDT"}
    THEN "Input should be 'USD', 'EUR', 'GBP', 'JPY', 'BTC', 'ETH' or 'USDT'"
    ELSE Ok

CashMovement_movement_type_pattern(v) ==
    IF v \notin {"deposit", "withdrawal", "dividend", "interest", "fee"}
    THEN "String should match pattern '^(deposit|withdrawal|dividend|interest|fee)$'"
    ELSE Ok

CashMovement_errors(a) ==
    Errs(<<CashMovement_validate_timestamp_timezone(a.timestamp),
           CashMovement_currency_enum(a.currency),
           CashMovement_movement_type_pattern(a.movement_type)>>)

CashMovement_instance(a) == a

NewCashMovement ==
    /\ kind = "none"
    /\ \E ts \in Timestamps, am \in CashAmounts, cur \in Currencies,
          mt \in MovementTypes :
           LET a == [timestamp |-> ts, amount |-> am, currency |-> cur,
                     movement_type |-> mt, description |-> None]
           IN  Construct("CashMovement", a, CashMovement_errors(a),
                         CashMovement_instance(a))

----------------------------------------------------------------------------
(* liq.core.trade *)

Trade_holding_period_gt(v) ==
    IF ~(v > 0) THEN "Input should be greater than 0" ELSE Ok

\* symbol is a plain str field: no validator of its own.
Trade_errors(a) == Errs(<<Trade_holding_period_gt(a.holding_period)>>)

\* str_strip_whitespace trims the symbol; nothing upper-cases it.
Trade_instance(a) == [a EXCEPT !.symbol = Strip(a.symbol)]

\* Fills a caller holds, to put in a trade.
EntryFill ==
    Fill_instance([symbol |-> <<"A","B">>, side |-> "buy", quantity |-> D(3, 0),
                   price |-> D(15, -1), commission |-> D(50, -2),
                   timestamp |-> UtcTime])

ExitFill ==
    Fill_instance([symbol |-> <<"A","B">>, side |-> "sell", quantity |-> D(3, 0),
                   price |-> D(2, 0), commission |-> D(50, -2),
                   timestamp |-> PlusOne])

NewTrade ==
    /\ kind = "none"
    /\ \E sym \in RawSymbols, hp \in HoldingPeriods :
           LET a == [symbol |-> sym, entry_fill |-> EntryFill,
                     exit_fill |-> ExitFill, pnl |-> D(15, -1),
                     return_pct |-> D(1, -2), holding_period |-> hp]
           IN  Construct("Trade", a, Trade_errors(a), Trade_instance(a))

----------------------------------------------------------------------------
(* liq.core.instrument: ProviderMetadata *)

ProviderMetadata_rate_limit_per_minute_gt(v) ==
    IF ~(v > 0) THEN "Input should be greater than 0" ELSE Ok

ProviderMetadata_priority_ge(v) ==
    IF ~(v >= 1) THEN "Input should be greater than or equal to 1" ELSE Ok

ProviderMetadata_rate_limit_per_day_gt(v) ==
    IF v # None /\ ~(v.int > 0) THEN "Input should be greater than 0" ELSE Ok

\* Runs for a supplied value only; None passes.
ProviderMetadata_validate_timestamp_timezone(v) ==
    IF ~Supplied(v) THEN Ok
    ELSE IF v # None /\ (~v.tzinfo \/ ~v.hasoff)
    THEN "last_successful_fetch must be timezone-aware (UTC expected)"
    ELSE Ok

ProviderMetadata_errors(a) ==
    Errs(<<ProviderMetadata_rate_limit_per_minute_gt(a.rate_limit_per_minute),
           ProviderMetadata_priority_ge(a.priority),
           ProviderMetadata_rate_limit_per_day_gt(a.rate_limit_per_day),
           ProviderMetadata_validate_timestamp_timezone(a.last_successful_fetch)>>)

ProviderMetadata_instance(a) ==
    [a EXCEPT !.last_successful_fetch = Default(a.last_successful_fetch)]

NewProviderMetadata ==
    /\ kind = "none"
    /\ \E rpm \in RateLimitsPerMinute, pr \in Priorities,
          rpd \in RateLimitsPerDay,
          lsf \in {Omitted, None} \cup Timestamps :
           LET a == [provider_name |-> "oanda",
                     asset_classes |-> <<"forex">>,
                     api_endpoint |-> "https://api.example",
                     rate_limit_per_minute |-> rpm, enabled |-> TRUE,
                     priority |-> pr, authentication_required |-> TRUE,
                     rate_limit_per_day |-> rpd,
                     historical_data_limit_years |-> None,
                     last_successful_fetch |-> lsf]
           IN  Construct("ProviderMetadata", a, ProviderMetadata_errors(a),
                         ProviderMetadata_instance(a))

----------------------------------------------------------------------------
(* liq.core.results *)

\* FetchResult.__post_init__: the first check that fails raises.
FetchResult_post_init(r) ==
    IF r.success /\ r.count = None
    THEN "count is required when success=True"
    ELSE IF ~r.success /\ r.error = None
    THEN "error is required when success=False"
    ELSE Ok

FetchResult_errors(a) == Errs(<<FetchResult_post_init(a)>>)

\* The generated __init__ stores each argument as it is.
FetchResult_instance(a) == a

NewFetchResult ==
    /\ kind = "none"
    /\ \E sym \in {<<"A","B">>, <<"A","_","B">>}, ok \in BOOLEAN,
          n \in OptionalCounts, e \in OptionalErrors :
           LET a == [symbol |-> sym, success |-> ok, count |-> n, error |-> e]
           IN  Construct("FetchResult", a, FetchResult_errors(a),
                         FetchResult_instance(a))

\* UpdateResult.__post_init__: the first check that fails raises.
UpdateResult_post_init(r) ==
    IF r.success /\ r.gaps_filled = None
    THEN "gaps_filled is required when success=True"
    ELSE IF r.success /\ r.total_rows = None
    THEN "total_rows is required when success=True"
    ELSE IF ~r.success /\ r.error = None
    THEN "error is required when success=False"
    ELSE Ok

UpdateResult_errors(a) == Errs(<<UpdateResult_post_init(a)>>)

UpdateResult_instance(a) == a

NewUpdateResult ==
    /\ kind = "none"
    /\ \E sym \in {<<"A","B">>, <<"A","_","B">>}, ok \in BOOLEAN,
          g \in OptionalCounts, t \in OptionalRows, e \in OptionalErrors :
           LET a == [symbol |-> sym, success |-> ok, gaps_filled |-> g,
                     total_rows |-> t, error |-> e]
           IN  Construct("UpdateResult", a, UpdateResult_errors(a),
                         UpdateResult_instance(a))

\* Results a caller holds, each built by FetchResult(...).
FetchResults ==
    { [symbol |-> <<"A","B">>, success |-> TRUE, count |-> SomeInt(5000),
       error |-> None],
      [symbol |-> <<"Z","Z">>, success |-> TRUE, count |-> SomeInt(0),
       error |-> None],
      [symbol |-> <<"A","_","B">>, success |-> FALSE, count |-> None,
       error |-> Message("Not found")],
      [symbol |-> <<"A","B">>, success |-> FALSE, count |-> None,
       error |-> Message("API rate limit")] }

\* A variant that checks the length of results before the totals.
BatchResult_post_init_length_first(b) ==
    IF Len(b.results) # b.total
    THEN "results length must equal total"
    ELSE IF b.total # b.succeeded + b.failed
    THEN "total must equal succeeded + failed"
    ELSE Ok

\* __post_init__: the first check that fails raises.
BatchResult_post_init(b) ==
    IF b.total # b.succeeded + b.failed
    THEN "total must equal succeeded + failed"
    ELSE IF Len(b.results) # b.total
    THEN "results length must equal total"
    ELSE Ok

BatchResult_errors(a) == Errs(<<BatchResult_post_init(a)>>)

\* The generated __init__ stores each argument as it is: results is the
\* caller's own list.
BatchResult_instance(a) == a

NewBatchResult ==
    /\ kind = "none"
    /\ \E tot \in BatchCounts, s \in BatchCounts, f \in BatchCounts,
          rs \in UNION {[1..n -> FetchResults] : n \in 0..MaxResults} :
           LET a == [total |-> tot, succeeded |-> s, failed |-> f,
                     results |-> rs]
           IN  Construct("BatchResult", a, BatchResult_errors(a),
                         BatchResult_instance(a))

\* A variant that returns the failed results newest first.
BatchResult_get_failures_newest_first(b) ==
    LET f == SelectSeq(b.results, LAMBDA r : ~r.success)
    IN  [i \in 1..Len(f) |-> f[Len(f) + 1 - i]]

\* [r for r in self.results if not r.success]
BatchResult_get_failures(b) == SelectSeq(b.results, LAMBDA r : ~r.success)

\* [r for r in self.results if r.success]
BatchResult_get_successes(b) == SelectSeq(b.results, LAMBDA r : r.success)

\* success_rate: 0.0 when total == 0, else succeeded / total * 100.  The
\* float is kept as the ratio num / den it approximates.
BatchResult_success_rate(b) ==
    IF b.total = 0 THEN [num |-> 0, den |-> 1]
    ELSE IF b.total < 0 THEN [num |-> -(b.succeeded * 100), den |-> -b.total]
    ELSE [num |-> b.succeeded * 100, den |-> b.total]

BatchSuccessRate ==
    Read("BatchResult", "success_rate", BatchResult_success_rate(obj))

BatchGetFailures ==
    Read("BatchResult", "get_failures", BatchResult_get_failures(obj))

BatchGetSuccesses ==
    Read("BatchResult", "get_successes", BatchResult_get_successes(obj))

----------------------------------------------------------------------------
(* Serialization: model_dump, model_dump_json and validation of the dump *)

DigitChars == <<"0","1","2","3","4","5","6","7","8","9">>

\* str(n) for an int n >= 0
RECURSIVE IntStr(_)
IntStr(n) ==
    IF n < 10 THEN <<DigitChars[n + 1]>>
    ELSE IntStr(n \div 10) \o <<DigitChars[(n % 10) + 1]>>

\* int(s) for a string of digits
RECURSIVE IntParse(_)
IntParse(s) ==
    IF s = <<>> THEN 0
    ELSE 10 * IntParse(SubSeq(s, 1, Len(s) - 1))
            + (CHOOSE d \in 0..9 : DigitChars[d + 1] = s[Len(s)])

\* str(v) for a Decimal v: positional notation, or scientific notation when
\* the exponent is positive or the value has more than six leading zeros.
DStr(v) ==
    LET sign       == IF v.c < 0 THEN <<"-">> ELSE <<>>
        int        == IntStr(Abs(v.c))
        leftdigits == v.e + Len(int)
        dotplace   == IF v.e <= 0 /\ leftdigits > -6 THEN leftdigits ELSE 1
        intpart    == IF dotplace <= 0 THEN <<"0">>
                      ELSE IF dotplace >= Len(int)
                      THEN int \o Repeat("0", dotplace - Len(int))
                      ELSE SubSeq(int, 1, dotplace)
        fracpart   == IF dotplace <= 0
                      THEN <<".">> \o Repeat("0", -dotplace) \o int
                      ELSE IF dotplace >= Len(int) THEN <<>>
                      ELSE <<".">> \o SubSeq(int, dotplace + 1, Len(int))
        exp        == IF leftdigits = dotplace THEN <<>>
                      ELSE <<"E">>
                           \o (IF leftdigits - dotplace < 0 THEN <<"-">>
                               ELSE <<"+">>)
                           \o IntStr(Abs(leftdigits - dotplace))
    IN  sign \o intpart \o fracpart \o exp

\* The position of ch in s, 0 when it is not there.
Find(s, ch) ==
    IF ch \notin Range(s) THEN 0
    ELSE CHOOSE i \in 1..Len(s) : s[i] = ch /\ \A j \in 1..(i - 1) : s[j] # ch

\* Decimal(s) for a numeric string s: exact, nothing is rounded.
DParse(s) ==
    LET neg      == s[1] = "-"
        body     == IF neg THEN Tail(s) ELSE s
        epos     == Find(body, "E")
        mantissa == IF epos = 0 THEN body ELSE SubSeq(body, 1, epos - 1)
        exptext  == IF epos = 0 THEN <<>> ELSE SubSeq(body, epos + 1, Len(body))
        exp      == IF exptext = <<>> THEN 0
                    ELSE IF exptext[1] = "-" THEN -IntParse(Tail(exptext))
                    ELSE IntParse(Tail(exptext))
        dot      == Find(mantissa, ".")
        intpart  == IF dot = 0 THEN mantissa ELSE SubSeq(mantissa, 1, dot - 1)
        fracpart == IF dot = 0 THEN <<>>
                    ELSE SubSeq(mantissa, dot + 1, Len(mantissa))
        coeff    == IntParse(intpart \o fracpart)
    IN  D(IF neg THEN -coeff ELSE coeff, exp - Len(fracpart))

\* A str and an ISO 8601 timestamp, as a dump holds them.
Str(s) == [str |-> s]

IsStr(v) == "str" \in DOMAIN v

Iso(ts) == [iso |-> ts.off]

IsIso(v) == "iso" \in DOMAIN v

\* datetime.fromisoformat of a string with an offset
FromIso(v) == [tzinfo |-> TRUE, hasoff |-> TRUE, off |-> v.iso]

\* The entities a dump is taken of.
DumpedModels == {"Bar", "Quote", "OrderRequest", "Fill", "Position"}

\* The fields serialize_decimal is registered for.
SerializedDecimals(k) ==
    IF k = "Bar" THEN {"open", "high", "low", "close", "volume"}
    ELSE IF k = "Quote" THEN {"bid", "ask", "bid_size", "ask_size"}
    ELSE IF k = "OrderRequest" THEN {"quantity", "limit_price", "stop_price"}
    ELSE IF k = "Fill" THEN {"quantity", "price", "commission"}
    ELSE {"quantity", "average_price", "realized_pnl", "current_price"}

\* The fields of type Decimal.
DecimalFields(k) ==
    IF k = "Position" THEN SerializedDecimals(k) \cup {"avg_entry_price"}
    ELSE SerializedDecimals(k)

\* serialize_decimal
serialize_decimal(v) == IF v # None THEN Str(DStr(v)) ELSE None

\* model_dump(): a field with a serializer holds what the serializer
\* returns, every other field its value.
model_dump(k, o) ==
    [f \in DOMAIN o |->
        IF f \in SerializedDecimals(k) THEN serialize_decimal(o[f]) ELSE o[f]]

\* model_dump_json(): as model_dump, and a Decimal without serializer is
\* written as its str, a datetime in ISO 8601.
model_dump_json(k, o) ==
    [f \in DOMAIN o |->
        IF f \in SerializedDecimals(k) THEN serialize_decimal(o[f])
        ELSE IF f \in DecimalFields(k)
        THEN (IF o[f] # None THEN Str(DStr(o[f])) ELSE None)
        ELSE IF f = "timestamp" THEN Iso(o[f])
        ELSE o[f]]

\* The conversion of each input to the type of its field, which precedes
\* the field validators.
Coerce(k, d) ==
    [f \in DOMAIN d |->
        IF f \in DecimalFields(k)
        THEN (IF IsStr(d[f]) THEN DParse(d[f].str) ELSE d[f])
        ELSE IF f = "timestamp"
        THEN (IF IsIso(d[f]) THEN FromIso(d[f]) ELSE d[f])
        ELSE d[f]]

ErrorsOf(k, a) ==
    IF k = "Bar" THEN Bar_errors(a)
    ELSE IF k = "Quote" THEN Quote_errors(a)
    ELSE IF k = "OrderRequest" THEN Order_errors(a)
    ELSE IF k = "Fill" THEN Fill_errors(a)
    ELSE Position_errors(a)

InstanceOf(k, a) ==
    IF k = "Bar" THEN Bar_instance(a)
    ELSE IF k = "Quote" THEN Quote_instance(a)
    ELSE IF k = "OrderRequest" THEN Order_instance(a)
    ELSE IF k = "Fill" THEN Fill_instance(a)
    ELSE Position_instance(a)

ValidationError(errs) == [raised |-> errs]

\* cls.model_validate(d): Position overrides it, the others inherit it.
model_validate(k, d) ==
    LET a == Coerce(k, d)
    IN  IF ErrorsOf(k, a) # <<>> THEN ValidationError(ErrorsOf(k, a))
        ELSE IF k = "Position"
        THEN Position_model_validate_sync(InstanceOf(k, a))
        ELSE InstanceOf(k, a)

\* cls.model_validate_json(s): inherited by every entity.
model_validate_json(k, d) ==
    LET a == Coerce(k, d)
    IN  IF ErrorsOf(k, a) # <<>> THEN ValidationError(ErrorsOf(k, a))
        ELSE InstanceOf(k, a)

\* type(x).model_validate(x.model_dump())
RoundTripDump ==
    /\ kind \in DumpedModels
    /\ obj # None
    /\ call = "none"
    /\ call' = "model_validate(model_dump)"
    /\ params' = model_dump(kind, obj)
    /\ ret' = model_validate(kind, model_dump(kind, obj))
    /\ UNCHANGED <<kind, args, obj, errors>>

\* type(x).model_validate_json(x.model_dump_json())
RoundTripJson ==
    /\ kind \in DumpedModels
    /\ obj # None
    /\ call = "none"
    /\ call' = "model_validate_json(model_dump_json)"
    /\ params' = model_dump_json(kind, obj)
    /\ ret' = model_validate_json(kind, model_dump_json(kind, obj))
    /\ UNCHANGED <<kind, args, obj, errors>>

----------------------------------------------------------------------------
(* frozen = True *)

\* The entities that are pydantic models.
FrozenModels ==
    {"Bar", "Quote", "OrderRequest", "Fill", "Position", "PortfolioState",
     "LedgerEntry", "CorporateAction", "CashMovement", "Trade",
     "ProviderMetadata"}

\* What an assignment to a field of a frozen model raises.
FrozenInstance == [raised |-> "ValidationError: Instance is frozen"]

\* What an assignment to a field of a frozen dataclass raises.
FrozenInstanceError == [raised |-> "FrozenInstanceError"]

\* instance.name = value, for a field of a frozen model or dataclass: it
\* raises and nothing is written.
SetAttr ==
    /\ kind \in FrozenModels \cup {"BatchResult"}
    /\ obj # None
    /\ call = "none"
    /\ \E name \in DOMAIN obj :
          /\ call' = "__setattr__"
          /\ params' = [name |-> name]
          /\ ret' = IF kind = "BatchResult" THEN FrozenInstanceError
                     ELSE FrozenInstance
    /\ UNCHANGED <<kind, args, obj, errors>>

----------------------------------------------------------------------------
(* liq.core.symbols: the functions, called *)

\* A module-level function is called on argument p and returns r.
Call(name, a, p, r) ==
    /\ kind' = "symbols"
    /\ args' = a
    /\ obj' = None
    /\ errors' = <<>>
    /\ call' = name
    /\ params' = p
    /\ ret' = r

\* normalize_symbol(s, ac)
NormalizeSymbol ==
    /\ kind = "none"
    /\ \E s \in ProviderSymbols, ac \in AssetClass :
          Call("normalize_symbol", [symbol |-> s, asset_class |-> ac],
               s, normalize_symbol(s, ac))

\* normalize_symbol(n, ac) for the result n of normalize_symbol(s, ac)
NormalizeSymbolAgain ==
    /\ kind = "symbols"
    /\ call = "normalize_symbol"
    /\ Call("normalize_symbol_again", args,
            ret, normalize_symbol(ret, args.asset_class))

\* validate_symbol(n) for the result n of normalize_symbol(s, ac)
ValidateNormalized ==
    /\ kind = "symbols"
    /\ call = "normalize_symbol"
    /\ Call("validate_symbol", args, ret, validate_symbol(ret))

\* validate_symbol(s)
ValidateSymbol ==
    /\ kind = "none"
    /\ \E s \in CandidateSymbols :
          Call("validate_symbol", [symbol |-> s], s, validate_symbol(s))

\* parse_symbol(s)
ParseSymbol ==
    /\ kind = "none"
    /\ \E s \in CandidateSymbols :
          Call("parse_symbol", [symbol |-> s], s, parse_symbol(s))

----------------------------------------------------------------------------

\* The instance goes out of use; another construction may follow.
Discard ==
    /\ kind # "none"
    /\ kind' = "none"
    /\ args' = None
    /\ obj' = None
    /\ errors' = <<>>
    /\ call' = "none"
    /\ params' = None
    /\ ret' = None

Init ==
    /\ kind = "none"
    /\ args = None
    /\ obj = None
    /\ errors = <<>>
    /\ call = "none"
    /\ params = None
    /\ ret = None

Next ==
    \/ NewBar
    \/ BarMidrange
    \/ BarRange
    \/ BarTrueRangeMidrange
    \/ BarTrueRangeHl
    \/ NewQuote
    \/ QuoteMid
    \/ QuoteSpread
    \/ NewOrderRequest
    \/ NewPosition
    \/ PositionModelValidate
    \/ PositionModelValidateJson
    \/ PositionMarketValue
    \/ PositionUnrealizedPnl
    \/ PositionModelValidateInstance
    \/ SetAttr
    \/ RoundTripDump
    \/ RoundTripJson
    \/ NewPortfolioState
    \/ PortfolioPositionCount
    \/ PortfolioSymbols
    \/ PortfolioTotalMarketValue
    \/ PortfolioEquity
    \/ PortfolioTotalUnrealizedPnl
    \/ NewLedgerEntry
    \/ NewCorporateAction
    \/ NewCashMovement
    \/ NewTrade
    \/ NewProviderMetadata
    \/ NewFetchResult
    \/ NewUpdateResult
    \/ NewBatchResult
    \/ BatchSuccessRate
    \/ BatchGetFailures
    \/ BatchGetSuccesses
    \/ NewFill
    \/ FillNotionalValue
    \/ FillTotalCost
    \/ NormalizeSymbol
    \/ NormalizeSymbolAgain
    \/ ValidateNormalized
    \/ ValidateSymbol
    \/ ParseSymbol
    \/ Discard

Spec == Init /\ [][Next]_vars

----------------------------------------------------------------------------
(* The caller keeps using the containers it shares with an instance. *)

\* results.append(r), on the list the caller passed to BatchResult or on
\* batch.results: they are one list.
CallerAppendsResult ==
    /\ kind = "BatchResult"
    /\ obj # None
    /\ call = "none"
    /\ \E r \in FetchResults :
          /\ obj' = [obj EXCEPT !.results = Append(@, r)]
          /\ call' = "results.append"
          /\ params' = r
    /\ UNCHANGED <<kind, args, errors, ret>>

\* d[k] = p on the dict the caller passed to PortfolioState: validation
\* built the instance's own dict, which stays as it is.
CallerSetsPassedItem ==
    /\ kind = "PortfolioState"
    /\ obj # None
    /\ call = "none"
    /\ \E k \in RawSymbols, p \in HeldPositions :
          /\ call' = "passed.__setitem__"
          /\ params' = [key |-> k, pos |-> p]
    /\ UNCHANGED <<kind, args, obj, errors, ret>>

\* state.positions[k] = p: the dict the frozen instance exposes is an
\* ordinary dict.
CallerSetsExposedItem ==
    /\ kind = "PortfolioState"
    /\ obj # None
    /\ call = "none"
    /\ \E k \in RawSymbols, p \in HeldPositions :
          /\ obj' = [obj EXCEPT !.positions = DictSet(@, k, p)]
          /\ call' = "positions.__setitem__"
          /\ params' = [key |-> k, pos |-> p]
    /\ UNCHANGED <<kind, args, errors, ret>>

NextCaller ==
    \/ Next
    \/ CallerAppendsResult
    \/ CallerSetsPassedItem
    \/ CallerSetsExposedItem

SpecCaller == Init /\ [][NextCaller]_vars

----------------------------------------------------------------------------
(* Properties *)

DPos(v) == DLt(Zero, v)

DNonNeg(v) == DLe(Zero, v)

Canonical(raw) == validate_symbol(Upper(Strip(raw)))

AwareTs(ts) == ts.tzinfo /\ ts.hasoff

\* The condition under which the Bar data model admits a Bar.
BarAdmissible(a) ==
    /\ Canonical(a.symbol)
    /\ AwareTs(a.timestamp)
    /\ a.timestamp.off = 0
    /\ DPos(a.open) /\ DPos(a.high) /\ DPos(a.low) /\ DPos(a.close)
    /\ DNonNeg(a.volume)
    /\ DLe(a.low, a.open) /\ DLe(a.open, a.high)
    /\ DLe(a.low, a.close) /\ DLe(a.close, a.high)

\* C1: Bar construction succeeds if and only if the symbol is canonical after
\* trimming and upper-casing, the timestamp is timezone-aware UTC, the four
\* prices are > 0, volume >= 0 and low <= open, close <= high; otherwise it
\* raises and no Bar exists.  Every Bar that exists satisfies
\* low <= {open, close} <= high and low <= high.
C1_BarConstructionIffValid ==
    kind = "Bar" =>
        /\ (obj # None) <=> BarAdmissible(args)
        /\ (obj = None) <=> (errors # <<>>)
        /\ obj # None =>
              /\ DLe(obj.low, obj.open) /\ DLe(obj.open, obj.high)
              /\ DLe(obj.low, obj.close) /\ DLe(obj.close, obj.high)
              /\ DLe(obj.low, obj.high)
              /\ obj.symbol = Upper(Strip(args.symbol))

\* A doji (all four prices equal, volume 0) has been constructed.
C1_DojiAccepted ==
    /\ kind = "Bar"
    /\ obj # None
    /\ obj.open = obj.high /\ obj.high = obj.low /\ obj.low = obj.close
    /\ DEq(obj.volume, Zero)

\* C2: every Quote that exists has bid > 0, ask > 0, sizes >= 0 and
\* ask >= bid, and therefore spread = ask - bid >= 0 and bid <= mid <= ask
\* where mid = (bid + ask) / 2.
C2_QuoteSpreadAndMidBounds ==
    (kind = "Quote" /\ obj # None) =>
        /\ DPos(obj.bid) /\ DPos(obj.ask)
        /\ DNonNeg(obj.bid_size) /\ DNonNeg(obj.ask_size)
        /\ DLe(obj.bid, obj.ask)
        /\ call = "spread" => DNonNeg(ret)
        /\ call = "mid" => DLe(obj.bid, ret) /\ DLe(ret, obj.ask)

\* The prices an order type requires are present.
RequiredPricesPresent(a) ==
    /\ a.order_type \in {"limit", "stop_limit"} => a.limit_price # None
    /\ a.order_type \in {"stop", "stop_limit"} => a.stop_price # None

\* Every OrderRequest field passes its own validation.
OrderFieldsValid(a) ==
    /\ Canonical(a.symbol)
    /\ AwareTs(a.timestamp)
    /\ DPos(a.quantity)
    /\ a.limit_price # None => DPos(a.limit_price)
    /\ a.stop_price # None => DPos(a.stop_price)
    /\ a.confidence # None => a.confidence.tenths \in 0..10

\* The price field an error message names.
FieldNamed(msg) ==
    IF msg \in {"limit_price is required for LIMIT orders",
                "limit_price is required for STOP_LIMIT orders",
                "limit_price must be > 0"} THEN "limit_price"
    ELSE IF msg \in {"stop_price is required for STOP orders",
                     "stop_price is required for STOP_LIMIT orders",
                     "stop_price must be > 0"} THEN "stop_price"
    ELSE "other"

\* C3: given otherwise valid fields, OrderRequest construction succeeds iff
\* the prices required by order_type are present (market: none, limit:
\* limit_price, stop: stop_price, stop_limit: both); a missing required price
\* raises one error naming that field, limit_price first for a stop_limit
\* order with both missing.
C3_OrderPriceRequirements ==
    (kind = "OrderRequest" /\ OrderFieldsValid(args)) =>
        /\ (obj # None) <=> RequiredPricesPresent(args)
        /\ obj # None => errors = <<>>
        /\ obj = None =>
              /\ Len(errors) = 1
              /\ FieldNamed(errors[1]) =
                    IF args.order_type = "limit" THEN "limit_price"
                    ELSE IF args.order_type = "stop" THEN "stop_price"
                    ELSE IF args.limit_price = None THEN "limit_price"
                    ELSE "stop_price"

\* A stop_limit order with both prices missing has been refused.
C3_StopLimitBothMissing ==
    /\ kind = "OrderRequest"
    /\ OrderFieldsValid(args)
    /\ args.order_type = "stop_limit"
    /\ args.limit_price = None /\ args.stop_price = None
    /\ obj = None
    /\ errors = <<"limit_price is required for STOP_LIMIT orders">>

\* C4: every LedgerEntry that exists has its payload matching its tag: fill
\* is non-null iff entry_type is fill, cash_movement iff cash,
\* corporate_action iff corporate_action, so a margin_call entry carries no
\* typed payload; portfolio_state_after may be present or absent.
C4_LedgerPayloadMatchesTag ==
    (kind = "LedgerEntry" /\ obj # None) =>
        /\ (obj.fill # None) <=> (obj.entry_type = "fill")
        /\ (obj.cash_movement # None) <=> (obj.entry_type = "cash")
        /\ (obj.corporate_action # None) <=>
              (obj.entry_type = "corporate_action")

\* C5: every Position instance obtainable through any construction path
\* (direct construction, model_validate with or without avg_entry_price,
\* model_validate_json) has average_price >= 0 and, when present,
\* current_price >= 0; input that would violate this yields a validation
\* error and no instance.
C5_PositionPricesNonNegative ==
    (kind = "Position" /\ obj # None) =>
        /\ DNonNeg(obj.average_price)
        /\ obj.current_price # None => DNonNeg(obj.current_price)

\* The mark price of a position.
MarkPrice(p) ==
    IF p.current_price = None THEN p.average_price ELSE p.current_price

NormalizedKeys(items) == {Upper(Strip(items[i].key)) : i \in 1..Len(items)}

\* C8: constructing a PortfolioState rebuilds the positions mapping with
\* every key replaced by its trimmed, upper-cased form; if any key fails
\* validate_symbol after that normalization the construction fails and no
\* PortfolioState is produced; otherwise every key of the resulting mapping
\* satisfies validate_symbol.
C8_PortfolioKeysCanonical ==
    (kind = "PortfolioState" /\ args.positions.isdict) =>
        LET supplied == args.positions.items
        IN  /\ (\E k \in NormalizedKeys(supplied) : ~validate_symbol(k)) =>
                  (obj = None /\ errors # <<>>)
            /\ ( /\ \A k \in NormalizedKeys(supplied) : validate_symbol(k)
                 /\ AwareTs(args.timestamp) ) => obj # None
            /\ obj # None =>
                  /\ Keys(obj.positions) = NormalizedKeys(supplied)
                  /\ \A k \in Keys(obj.positions) : validate_symbol(k)

\* A PortfolioState exists one of whose keys was supplied in another form.
C8_KeyWasNormalized ==
    /\ kind = "PortfolioState"
    /\ obj # None
    /\ args.positions.isdict
    /\ \E i \in 1..Len(args.positions.items) :
          /\ args.positions.items[i].key \notin Keys(obj.positions)
          /\ Upper(Strip(args.positions.items[i].key)) \in Keys(obj.positions)

\* The sum of quantity * mark price over the positions, in mapping order.
RECURSIVE MarketValueSum(_)
MarketValueSum(items) ==
    IF items = <<>> THEN Zero
    ELSE LET last == items[Len(items)].pos
         IN  DAdd(MarketValueSum(SubSeq(items, 1, Len(items) - 1)),
                  DMul(last.quantity, MarkPrice(last)))

\* One long position of 10000 at 1.10 without current price, cash 89000.
IsEquityScenario(pf) ==
    /\ pf.cash = D(89000, 0)
    /\ pf.unsettled_cash = Zero
    /\ Len(pf.positions) = 1
    /\ pf.positions[1].pos.quantity = D(10000, 0)
    /\ pf.positions[1].pos.average_price = D(110, -2)
    /\ pf.positions[1].pos.current_price = None

RECURSIVE UnrealizedPnlSum(_, _)
UnrealizedPnlSum(items, prices) ==
    IF items = <<>> THEN Zero
    ELSE LET last == items[Len(items)]
         IN  DAdd(UnrealizedPnlSum(SubSeq(items, 1, Len(items) - 1), prices),
                  DMul(DSub(prices[last.key], last.pos.average_price),
                       last.pos.quantity))

\* C10: total_unrealized_pnl(current_prices) returns the sum over all held
\* positions (flat ones included) of (current_prices[key] - average_price) *
\* quantity when every positions key is in current_prices (extra entries are
\* ignored); if a held key is absent it raises KeyError, returns no partial
\* sum, and leaves the PortfolioState unchanged.
C10_TotalUnrealizedPnlOrKeyError ==
    (kind = "PortfolioState" /\ call = "total_unrealized_pnl") =>
        /\ obj = Portfolio_instance(args)
        /\ IF Keys(obj.positions) \subseteq DOMAIN params
           THEN /\ ret # KeyError
                /\ DEq(ret, UnrealizedPnlSum(obj.positions, params))
           ELSE ret = KeyError

\* The call raised KeyError although a price for another held position was
\* supplied.
C10_KeyErrorWithSomePrices ==
    /\ kind = "PortfolioState"
    /\ call = "total_unrealized_pnl"
    /\ ret = KeyError
    /\ Len(obj.positions) = 2
    /\ obj.positions[1].key \in DOMAIN params
    /\ obj.positions[2].key \notin DOMAIN params

\* SELL 10000 @ 1.1000 with commission 0.50.
IsSellScenario(f) ==
    /\ f.side = "sell"
    /\ f.quantity = D(10000, 0)
    /\ f.price = D(11000, -4)
    /\ f.commission = D(50, -2)

\* C7: for every valid Fill, notional_value == quantity * price (> 0) and
\* total_cost == notional_value + commission for a BUY and
\* -notional_value + commission for a SELL; SELL 10000 @ 1.1000 with
\* commission 0.50 gives -10999.50.
C7_FillNotionalAndTotalCost ==
    (kind = "Fill" /\ obj # None) =>
        /\ call = "notional_value" =>
              /\ DEq(ret, DMul(obj.quantity, obj.price))
              /\ DPos(ret)
        /\ call = "total_cost" =>
              LET notional == DMul(obj.quantity, obj.price)
              IN  /\ obj.side = "buy" =>
                        /\ DEq(ret, DAdd(notional, obj.commission))
                        /\ DPos(ret)
                  /\ obj.side = "sell" =>
                        DEq(ret, DAdd(DNeg(notional), obj.commission))
                  /\ IsSellScenario(obj) => DEq(ret, D(-1099950, -2))

\* total_cost of the SELL scenario has been read.
C7_SellScenarioRead ==
    /\ kind = "Fill"
    /\ obj # None
    /\ IsSellScenario(obj)
    /\ call = "total_cost"
    /\ DEq(ret, D(-1099950, -2))

\* C11: normalize_symbol is idempotent: for every raw string s (surrounding
\* or embedded whitespace, ':' prefixes and any separators included) and
\* every asset class ac, normalize_symbol(normalize_symbol(s, ac), ac) ==
\* normalize_symbol(s, ac).
C11_NormalizeIdempotent ==
    (kind = "symbols" /\ call = "normalize_symbol_again") => ret = params

Separators == {"/", "-", "_"}

\* s trimmed, upper-cased and without its exchange prefix.
Prepared(s) == SplitLast(Upper(Strip(s)), ":")

\* A raw symbol the round trip through normalize_symbol is promised for.
NonDegenerate(s) ==
    LET t == Prepared(s)
    IN  /\ Len(t) >= 2 /\ Len(t) <= 19
        /\ t[1] \in AlnumUpper
        /\ t[Len(t)] \in AlnumUpper
        /\ \A i \in 1..Len(t) : t[i] \in AlnumUpper \cup Separators
        /\ Cardinality({i \in 1..Len(t) : t[i] \in Separators}) <= 1

\* C12: for every asset class ac and every non-degenerate raw symbol s (after
\* trimming, upper-casing and exchange-prefix removal: 2 to 19 characters,
\* starting and ending with a letter or digit, otherwise only letters, digits
\* and at most one separator among '/', '-' and '_'),
\* validate_symbol(normalize_symbol(s, ac)) is True.
C12_ValidateAfterNormalize ==
    ( /\ kind = "symbols"
      /\ call = "validate_symbol"
      /\ "asset_class" \in DOMAIN args
      /\ NonDegenerate(args.symbol) ) => ret = TRUE

\* The quote currencies, in the order the claim lists them.
QuoteCurrencies ==
    << <<"U","S","D","T">>, <<"U","S","D","C">>, <<"B","U","S","D">>,
       <<"U","S","D">>, <<"B","T","C">>, <<"E","T","H">>,
       <<"E","U","R">>, <<"G","B","P">> >>

\* The entries the symbol t ends with, leaving a non-empty base.
Qualifying(t) ==
    {i \in 1..Len(QuoteCurrencies) :
        /\ Len(t) > Len(QuoteCurrencies[i])
        /\ SubSeq(t, Len(t) - Len(QuoteCurrencies[i]) + 1, Len(t))
              = QuoteCurrencies[i]}

\* What the CRYPTO rule yields for the prepared symbol t ('_' already '-').
CryptoForm(t) ==
    IF "-" \in Range(t) THEN t
    ELSE IF Qualifying(t) # {}
    THEN LET i == CHOOSE i \in Qualifying(t) : \A j \in Qualifying(t) : i <= j
             q == QuoteCurrencies[i]
         IN  SubSeq(t, 1, Len(t) - Len(q)) \o <<"-">> \o q
    ELSE IF Len(t) >= 6
    THEN SubSeq(t, 1, 3) \o <<"-">> \o SubSeq(t, 4, Len(t))
    ELSE t

BinanceBtcUsdt ==
    <<"B","I","N","A","N","C","E",":","b","t","c","u","s","d","t">>

\* C13: for CRYPTO, after trimming, upper-casing, exchange-prefix removal and
\* replacing '_' by '-': a symbol containing '-' is returned as it is;
\* otherwise the result is base + '-' + q for the first q of [USDT, USDC,
\* BUSD, USD, BTC, ETH, EUR, GBP] the symbol ends with leaving a non-empty
\* base; if none qualifies, the first 3 characters + '-' + the rest when the
\* length is >= 6 and the symbol unchanged when it is < 6.
\* normalize_symbol('BINANCE:btcusdt', CRYPTO) == 'BTC-USDT'.
C13_CryptoNormalization ==
    ( /\ kind = "symbols"
      /\ call = "normalize_symbol"
      /\ args.asset_class = "crypto" ) =>
        /\ ret = CryptoForm(Replace(Prepared(args.symbol), "_", "-"))
        /\ args.symbol = BinanceBtcUsdt =>
              ret = <<"B","T","C","-","U","S","D","T">>

\* 'BINANCE:btcusdt' has been normalized as CRYPTO to 'BTC-USDT'.
C13_BinanceScenario ==
    /\ kind = "symbols"
    /\ call = "normalize_symbol"
    /\ args.asset_class = "crypto"
    /\ args.symbol = BinanceBtcUsdt
    /\ ret = <<"B","T","C","-","U","S","D","T">>

\* The strings the claim says validate_symbol accepts.
WellFormedSymbol(s) ==
    /\ Len(s) >= 2 /\ Len(s) <= 20
    /\ \A i \in 1..Len(s) : s[i] \in AlnumUpper \cup {"_", "-"}
    /\ s[1] \in AlnumUpper
    /\ s[Len(s)] \in AlnumUpper

\* C14: validate_symbol(s) returns True exactly when s has 2 to 20
\* characters, each an uppercase letter, a digit, '_' or '-', the first and
\* the last an uppercase letter or a digit; for every other string (empty,
\* one character, longer than 20, lowercase, or containing '/', ':',
\* whitespace or any other character) it returns False; it never raises.
C14_ValidateSymbolExact ==
    (kind = "symbols" /\ call = "validate_symbol") =>
        /\ ret \in BOOLEAN
        /\ ret <=> WellFormedSymbol(params)

\* C15: parse_symbol(c) returns (text before the first '_', text after it)
\* when c contains '_'; else the same for the first '-' when c contains '-';
\* else (c, ''); it never changes character case, and whenever a separator
\* was used, base + separator + quote == c.
C15_ParseSymbol ==
    (kind = "symbols" /\ call = "parse_symbol") =>
        LET c     == params
            base  == ret[1]
            quote == ret[2]
            sep   == IF "_" \in Range(c) THEN "_"
                     ELSE IF "-" \in Range(c) THEN "-" ELSE ""
        IN  /\ Len(ret) = 2
            /\ sep = "" => (base = c /\ quote = <<>>)
            /\ sep # "" =>
                  /\ sep \notin Range(base)
                  /\ base \o <<sep>> \o quote = c

\* A symbol holding both separators, the hyphen first, has been split at its
\* underscore.
C15_UnderscoreWins ==
    /\ kind = "symbols"
    /\ call = "parse_symbol"
    /\ params = <<"A","-","B","_","C">>
    /\ ret = << <<"A","-","B">>, <<"C">> >>

\* The entities whose timestamp field is called timestamp.
TimestampKinds ==
    {"Bar", "Quote", "Position", "Fill", "OrderRequest", "PortfolioState",
     "CashMovement", "LedgerEntry"}

\* The timestamps the constructor call supplied.
SuppliedTimestamps ==
    IF kind = "Position" THEN {args.data.timestamp}
    ELSE IF kind \in TimestampKinds THEN {args.timestamp}
    ELSE IF kind = "CorporateAction" THEN {args.ex_date}
    ELSE IF kind = "ProviderMetadata"
    THEN {args.last_successful_fetch} \ {Omitted, None}
    ELSE {}

\* The timestamps the instance holds.
HeldTimestamps ==
    IF kind \in TimestampKinds THEN {obj.timestamp}
    ELSE IF kind = "CorporateAction" THEN {obj.ex_date}
    ELSE IF kind = "ProviderMetadata" THEN {obj.last_successful_fetch} \ {None}
    ELSE {}

\* C16: every entity with a timestamp field (Bar, Quote, Position, Fill,
\* OrderRequest, PortfolioState, CashMovement, CorporateAction.ex_date,
\* LedgerEntry, and ProviderMetadata.last_successful_fetch when supplied)
\* rejects a naive timestamp (one carrying no UTC offset) at construction, so
\* no instance with a naive timestamp exists.
C16_NaiveTimestampRejected ==
    /\ (\E ts \in SuppliedTimestamps : ~AwareTs(ts)) =>
          (obj = None /\ errors # <<>>)
    /\ obj # None => \A ts \in HeldTimestamps : AwareTs(ts)

\* A corporate action whose ex_date has a tzinfo that gives no offset has
\* been refused for that reason alone.
C16_NoOffsetExDateRefused ==
    /\ kind = "CorporateAction"
    /\ args.ex_date = NoOffset
    /\ obj = None
    /\ errors = <<"ex_date must be timezone-aware (UTC expected)">>

\* The entities with a symbol field.
SymbolKinds ==
    {"Bar", "Quote", "Position", "Fill", "OrderRequest", "CorporateAction",
     "Trade"}

\* The symbol the constructor call supplied.
SuppliedSymbol == IF kind = "Position" THEN args.data.symbol ELSE args.symbol

\* C17: every symbol field of every entity (Bar, Quote, Position, Fill,
\* OrderRequest, CorporateAction, Trade) holds, after construction, the
\* trimmed and upper-cased form of the supplied symbol and satisfies
\* validate_symbol; a symbol that fails canonical-format validation after
\* trimming and upper-casing (e.g. 'eur/usd') fails construction.
C17_SymbolFieldsCanonical ==
    kind \in SymbolKinds =>
        /\ ~Canonical(SuppliedSymbol) => obj = None
        /\ obj # None =>
              /\ obj.symbol = Upper(Strip(SuppliedSymbol))
              /\ validate_symbol(obj.symbol)

\* C18: once an entity is constructed, none of its field values ever changes
\* under any sequence of public operations on it: an attempted attribute
\* assignment raises and leaves the field unchanged, and reading derived
\* properties, serializing, or passing the existing instance to its type's
\* model_validate leaves every field (Position.average_price and
\* Position.avg_entry_price included) exactly as it was.
C18_FieldsNeverChange ==
    [][(obj # None /\ kind' = kind) => obj' = obj]_vars

\* C19: a constructed entity shares no mutable state with its caller:
\* mutating, after construction, the list that was passed as
\* BatchResult.results or the dict that was passed as PortfolioState.positions
\* (or the container the instance exposes) does not change the entity, so
\* len(results) == total and the canonical-key property of positions keep
\* holding in every state reachable after construction.
C19_NoSharedMutableState ==
    /\ (kind = "BatchResult" /\ obj # None) =>
          /\ Len(obj.results) = obj.total
          /\ obj = BatchResult_instance(args)
    /\ (kind = "PortfolioState" /\ obj # None) =>
          /\ \A k \in Keys(obj.positions) : validate_symbol(k)
          /\ obj = Portfolio_instance(args)

\* C20: round-trip law: for every entity x of every entity type,
\* deserializing its serialized form (model_dump then model_validate, or
\* model_dump_json then model_validate_json) yields an instance equal to x
\* field by field, with every decimal field carried as its exact string
\* representation.
C20_RoundTrip ==
    call \in {"model_validate(model_dump)",
              "model_validate_json(model_dump_json)"} =>
        /\ ret = obj
        /\ \A f \in DecimalFields(kind) :
              obj[f] # None =>
                 /\ IsStr(params[f])
                 /\ DParse(params[f].str) = obj[f]

----------------------------------------------------------------------------
\* The success fields of a result, and whether it has one of the two shapes:
\* a success with every success field and no error, or a failure with an
\* error and no success field.
SuccessFields(k, r) ==
    IF k = "FetchResult" THEN {r.count} ELSE {r.gaps_filled, r.total_rows}

TwoShapes(k, r) ==
    \/ r.success /\ None \notin SuccessFields(k, r) /\ r.error = None
    \/ ~r.success /\ r.error # None /\ SuccessFields(k, r) = {None}

\* C21: FetchResult and UpdateResult exist only in two shapes: success=True
\* with every success field present and error absent, or success=False with
\* error present and every success field absent; construction with any other
\* combination fails.
C21_ResultShapes ==
    kind \in {"FetchResult", "UpdateResult"} =>
        (obj # None <=> TwoShapes(kind, args))

----------------------------------------------------------------------------
\* C22: constructing a BatchResult with total != succeeded + failed or with
\* len(results) != total always fails, the totals mismatch being reported
\* first when both hold; every BatchResult that is constructed satisfies
\* total == succeeded + failed and len(results) == total.
C22_BatchResultTotals ==
    kind = "BatchResult" =>
        LET totalsDiffer == args.total # args.succeeded + args.failed
            lengthDiffers == Len(args.results) # args.total
        IN  /\ (totalsDiffer \/ lengthDiffers) <=> obj = None
            /\ totalsDiffer =>
                   errors = <<"total must equal succeeded + failed">>
            /\ (~totalsDiffer /\ lengthDiffers) =>
                   errors = <<"results length must equal total">>
            /\ obj # None =>
                   /\ obj.total = obj.succeeded + obj.failed
                   /\ Len(obj.results) = obj.total

\* Both checks would fail, and the totals are the ones reported.
C22_BothMismatchTotalsFirst ==
    /\ kind = "BatchResult"
    /\ args.total # args.succeeded + args.failed
    /\ Len(args.results) # args.total
    /\ errors = <<"total must equal succeeded + failed">>

----------------------------------------------------------------------------
\* The positions of results whose success flag is flag, and the list of the
\* results at those positions, in increasing position.
Flagged(results, flag) == {i \in 1..Len(results) : results[i].success = flag}

NthOf(S, j) == CHOOSE i \in S : Cardinality({k \in S : k <= i}) = j

Picked(results, flag) ==
    [j \in 1..Cardinality(Flagged(results, flag)) |->
        results[NthOf(Flagged(results, flag), j)]]

\* C23: get_successes() returns exactly the results whose success flag is
\* true and get_failures() exactly those whose flag is false, each in their
\* original relative order; the two lists are disjoint, together contain
\* every element of results, and neither call changes the BatchResult.
C23_SuccessesAndFailures ==
    (kind = "BatchResult" /\ obj # None) =>
        LET successes == BatchResult_get_successes(obj)
            failures == BatchResult_get_failures(obj)
        IN  /\ call = "get_successes" => ret = successes
            /\ call = "get_failures" => ret = failures
            /\ successes = Picked(obj.results, TRUE)
            /\ failures = Picked(obj.results, FALSE)
            /\ Range(successes) \cap Range(failures) = {}
            /\ Range(successes) \cup Range(failures) = Range(obj.results)
            /\ Len(successes) + Len(failures) = Len(obj.results)
            /\ obj = BatchResult_instance(args)

\* Two different failures around a success, returned in their order.
C23_FailuresAroundSuccess ==
    /\ kind = "BatchResult"
    /\ call = "get_failures"
    /\ Len(obj.results) = 3
    /\ obj.results[2].success
    /\ obj.results[1] # obj.results[3]
    /\ ret = <<obj.results[1], obj.results[3]>>

----------------------------------------------------------------------------
\* C24: for every valid Bar, range = high - low is >= 0 and midrange =
\* (high + low) / 2 satisfies low <= midrange <= high; for a doji midrange
\* equals the single price and range equals 0.
C24_RangeAndMidrangeBounds ==
    (kind = "Bar" /\ obj # None) =>
        /\ call = "range" =>
               /\ DLe(Zero, ret)
               /\ DEq(obj.high, obj.low) => DEq(ret, Zero)
        /\ call = "midrange" =>
               /\ DLe(obj.low, ret)
               /\ DLe(ret, obj.high)
               /\ DEq(obj.high, obj.low) => DEq(ret, obj.high)

----------------------------------------------------------------------------
\* The position on the other side: the same fields with the quantity negated.
OtherSide(p) == [p EXCEPT !.quantity = D(-p.quantity.c, p.quantity.e)]

\* C25: for a long position with quantity q > 0 and a short position with
\* quantity -q that have identical average_price, unrealized_pnl at the same
\* current_price are negatives of each other, where unrealized_pnl(p) ==
\* (p - average_price) * quantity; a flat position has unrealized P&L 0 at
\* every price.
C25_PnlSignSymmetry ==
    (kind = "Position" /\ obj # None /\ call = "unrealized_pnl") =>
        LET price == params.current_price
            mirrored == Position_unrealized_pnl(OtherSide(obj), price)
        IN  /\ DEq(ret, DMul(DSub(price, obj.average_price), obj.quantity))
            /\ DEq(DAdd(ret, mirrored), Zero)
            /\ DEq(mirrored, DNeg(ret))
            /\ DEq(obj.quantity, Zero) => DEq(ret, Zero)
            /\ (DLt(Zero, obj.quantity) /\ DLt(obj.average_price, price)) =>
                   DLt(Zero, ret) /\ DLt(mirrored, Zero)

\* A long position in profit has been read.
C25_LongInProfit ==
    /\ kind = "Position"
    /\ call = "unrealized_pnl"
    /\ DEq(obj.quantity, D(2, 0))
    /\ DEq(obj.average_price, D(15, -1))
    /\ params.current_price = D(2, 0)
    /\ DEq(ret, D(1, 0))

----------------------------------------------------------------------------
\* r is the maximum of the terms: one of them, and no term exceeds it.
IsMaximum(r, terms) ==
    /\ \E t \in terms : DEq(r, t)
    /\ \A t \in terms : DLe(t, r)

\* The gap between a price of the bar and the previous bar's, when supplied.
GapTerm(price, prev) ==
    IF prev = None THEN {} ELSE {DAbs(DSub(price, prev))}

\* C26: true_range_midrange(None) == range and true_range_midrange(m) ==
\* max(range, |midrange - m|); true_range_hl(h, l) is the maximum of range,
\* |high - h| when h is given and |low - l| when l is given; in every case
\* the result is >= range >= 0.
C26_TrueRange ==
    (kind = "Bar" /\ obj # None) =>
        /\ call = "true_range_midrange" =>
               /\ IsMaximum(ret, {Bar_range(obj)} \cup
                       GapTerm(Bar_midrange(obj), params.prev_midrange))
               /\ params.prev_midrange = None => ret = Bar_range(obj)
        /\ call = "true_range_hl" =>
               /\ IsMaximum(ret, {Bar_range(obj)} \cup
                       GapTerm(obj.high, params.prev_high) \cup
                       GapTerm(obj.low, params.prev_low))
               /\ (params.prev_high = None /\ params.prev_low = None) =>
                      ret = Bar_range(obj)
        /\ call \in {"true_range_midrange", "true_range_hl"} =>
               /\ DLe(Bar_range(obj), ret)
               /\ DLe(Zero, Bar_range(obj))

\* Both previous prices are given and the gap between the lows is the
\* greatest term.
C26_GapBelowDominates ==
    /\ kind = "Bar"
    /\ call = "true_range_hl"
    /\ params.prev_high # None
    /\ params.prev_low # None
    /\ DLt(Bar_range(obj), DAbs(DSub(obj.high, params.prev_high)))
    /\ DLt(DAbs(DSub(obj.high, params.prev_high)), ret)
    /\ DEq(ret, DAbs(DSub(obj.low, params.prev_low)))

\* The gap between the midranges exceeds the bar's range.
C26_MidrangeGapDominates ==
    /\ kind = "Bar"
    /\ call = "true_range_midrange"
    /\ params.prev_midrange # None
    /\ DLt(Bar_range(obj), ret)

----------------------------------------------------------------------------
\* The entities, other than Bar, that the offset policy names.
AnyOffsetKinds ==
    {"Quote", "Position", "Fill", "OrderRequest", "PortfolioState",
     "CashMovement", "CorporateAction", "LedgerEntry"}

\* The errors a timestamp validator raises.
TimestampErrors ==
    {"timestamp must be timezone-aware (UTC expected)",
     "timestamp must be UTC",
     "ex_date must be timezone-aware (UTC expected)"}

C27_OffsetHeld(k) ==
    /\ kind = k
    /\ obj # None
    /\ HeldTimestamps = {PlusOne}

----------------------------------------------------------------------------
\* C28: in every PortfolioState that exists each position is stored under
\* its own canonical symbol: for every key k of positions,
\* positions[k].symbol == k.
C28_PositionStoredUnderOwnSymbol ==
    (kind = "PortfolioState" /\ obj # None) =>
        \A i \in 1..Len(obj.positions) :
            obj.positions[i].pos.symbol = obj.positions[i].key

----------------------------------------------------------------------------
\* C29: PortfolioState construction never silently drops or overwrites a
\* supplied position: when construction succeeds, position_count equals the
\* number of entries in the supplied positions mapping and symbols lists
\* exactly position_count distinct canonical keys in insertion order,
\* including when two supplied keys differ only by case or surrounding
\* whitespace.
C29_NoPositionDroppedOrOverwritten ==
    (kind = "PortfolioState" /\ obj # None) =>
        LET supplied == args.positions.items
        IN  /\ Portfolio_position_count(obj) = Len(supplied)
            /\ call = "position_count" => ret = Len(supplied)
            /\ call = "symbols" =>
                   /\ Len(ret) = Len(supplied)
                   /\ \A i \in 1..Len(ret) :
                          /\ validate_symbol(ret[i])
                          /\ ret[i] = Upper(Strip(supplied[i].key))
                          /\ \A j \in 1..Len(ret) : i # j => ret[i] # ret[j]
            /\ \A i \in 1..Len(supplied) :
                   \E j \in 1..Len(obj.positions) :
                       obj.positions[j].pos = supplied[i].pos

----------------------------------------------------------------------------
\* C30: in every BatchResult that exists the summary counts agree with the
\* individual results: succeeded == len(get_successes()), failed ==
\* len(get_failures()), all three counts are >= 0, and success_rate equals
\* the percentage of results whose success flag is true and lies in
\* [0, 100].
C30_CountsAgreeWithResults ==
    (kind = "BatchResult" /\ obj # None) =>
        LET successes == Len(BatchResult_get_successes(obj))
            failures == Len(BatchResult_get_failures(obj))
        IN  /\ obj.succeeded = successes
            /\ obj.failed = failures
            /\ obj.total >= 0 /\ obj.succeeded >= 0 /\ obj.failed >= 0
            /\ call = "success_rate" =>
                   /\ ret.num * Len(obj.results) = 100 * successes * ret.den
                   /\ 0 <= ret.num
                   /\ ret.num <= 100 * ret.den

====
